---- MODULE Spec2Model ----
(***************************************************************************)
(* Verification model of the literature-review job pipeline.               *)
(*                                                                         *)
(* The repository holds two variants of the pipeline:                      *)
(*   literature/  one Celery task, generate_review_task, driving a         *)
(*                ReviewTask row through search, download, extract,        *)
(*                summarize and generate (src/literature/tasks.py), with   *)
(*                the create and cancel views of src/literature/views.py;  *)
(*   litapp/      two chained Celery tasks working on a                    *)
(*                LiteratureReviewJob row (src/litapp/tasks.py), with the  *)
(*                submit and cancel views of src/litapp/views.py.          *)
(* One job is followed from its creation on.  The variable app says which  *)
(* variant handles it; the variables of the other variant stay at their    *)
(* initial values.                                                         *)
(*                                                                         *)
(* Every process that holds a model instance holds a COPY of the row: a    *)
(* full save() writes the whole copy back, a save(update_fields=...)       *)
(* writes the named columns only.  The persisted row and each copy are     *)
(* separate variables, and the writes of the task row are steps of their    *)
(* own, so that the views interleave with the worker as in the code.       *)
(***************************************************************************)
EXTENDS Integers, Sequences, FiniteSets, TLC

\* ------------------------------------------------------------------ bounds
\* number of works the search can return (the code keeps at most 30)
MaxPapers == 2
\* number of disturbances in one run: cancel requests and lost workers,
\* taken together
MaxEvents == 1

\* Jobs working at the same time on one shared document.
MaxJobs == 2

\* Submissions one user has in flight at the same time.
MaxRequests == 4

\* Workers of the pool that can take a message of the job.
MaxWorkers == 2

\* Cancel requests, retry commands and lost workers in one run of the
\* re-enqueue specification.
MaxCommands == 3

\* ------------------------------------------------------- program constants
\* max_retries of llm_generation_task
MaxRetries == 3
\* stage weights of update_task_progress
W_SEARCH == 5
W_DOWNLOAD == 25
W_EXTRACT == 25
W_SUMMARIZE == 30
W_GENERATE == 15
PROGRESS_CAP == 99
PROGRESS_DONE == 100
\* the number of pending and processing jobs at which a submission is refused
MAX_PENDING_JOBS == 3

NULL == "null"
Papers == 1..MaxPapers

RECURSIVE Factorial(_)
Factorial(n) == IF n <= 1 THEN 1 ELSE n * Factorial(n - 1)
\* progress_percent is a float; it is kept here as the exact rational
\* percent * Scale, Scale being a common multiple of every possible target.
Scale == Factorial(MaxPapers)

VARIABLES
    app,           \* "literature" or "litapp": the variant handling the job
    queue,         \* messages of the job's (first) task waiting in the queue
    revoked,       \* the id of that task has been revoked at the workers
    retries,       \* retries llm_generation_task has asked for (self.retry)
    events,        \* disturbances so far
    papers_data,   \* number of works the search returned
    idx,           \* loop index over papers_data
    call,          \* the external call or answer of the last step
    createPc,      \* position of the view that creates the job
    cancelPc,      \* position of the view that cancels the job
    task,          \* literature: the persisted ReviewTask row
    papers,        \* literature: the persisted Paper rows, by search rank
    wpc,           \* literature: position of the worker in generate_review_task
    wtask,         \* literature: the worker's in-memory ReviewTask
    paper,         \* literature: the worker's in-memory Paper of this iteration
    counts,        \* literature: download_count, extract_count, summarize_count
    processed_papers, \* literature: works collected for the review
    ctask,         \* literature: the cancel view's in-memory ReviewTask
    job,           \* litapp: the persisted LiteratureReviewJob row
    lpapers,       \* litapp: the persisted Paper rows, by search rank
    cache,         \* litapp: the PDFs in the cache directory, by search rank
    jpc,           \* litapp: position in generate_literature_review_job
    jmem,          \* litapp: that task's in-memory job
    extracted_papers, \* litapp: works whose text was extracted
    lqueue,        \* litapp: messages of llm_generation_task waiting
    lpc,           \* litapp: position in llm_generation_task
    lmem,          \* litapp: that task's in-memory job
    cjob,          \* litapp: the cancel view's in-memory job
    dpc,           \* shared document: position of each job working on it
    dpaper,        \* shared document: each job's in-memory Paper
    downloads,     \* shared document: the jobs that asked the network for it
    cached0,       \* shared document: it was cached before the jobs came
    rpc,           \* submissions: position of each request of one user
    active,        \* submissions: that user's pending and processing jobs
    tasks,         \* submissions: first tasks enqueued for that user
    messages,      \* re-enqueue: ids of the job's first-task messages waiting
    running,       \* re-enqueue: the task id each worker is executing, if any
    revokedIds,    \* re-enqueue: the task ids revoked at the workers
    fpc,           \* one download: position of the call
    url,           \* one download: the URL the call is given
    cached_pdf,    \* one download: the file at the path the call writes to
    response,      \* one download: the answer of the server
    returned,      \* one download: what the call has returned
    total,         \* one download: retries the transport has left
    sends,         \* one download: requests the transport has sent
    status_code,   \* one download: status of the last answer, 0 without one
    callers,       \* concurrent downloads of one URL: each call's position
    reviews,       \* litapp: the LiteratureReview rows created for the job
    updated_at     \* litapp: "old" when the last update of the processing job
                   \* is more than two hours back

litappVars == <<job, lpapers, cache, jpc, jmem, extracted_papers, lqueue, lpc,
                lmem, cjob>>
literatureVars == <<task, papers, wpc, wtask, paper, counts, processed_papers,
                    ctask>>

docVars == <<dpc, dpaper, downloads, cached0>>
quotaVars == <<rpc, active, tasks>>
retryVars == <<messages, running, revokedIds>>
fetchVars == <<fpc, url, cached_pdf, response, returned, total, sends,
              status_code, callers>>

vars == <<app, queue, revoked, retries, events, papers_data, idx, call,
          createPc, cancelPc, literatureVars, litappVars, docVars, quotaVars,
          retryVars, fetchVars, reviews, updated_at>>

\* ---------------------------------------------------------------- values
\* The row ReviewTask.objects.create(..., status='pending') inserts.
NewReviewTask ==
    [status |-> "pending", current_stage |-> NULL,
     papers_found |-> 0, total_papers_target |-> 0,
     papers_downloaded |-> 0, papers_extracted |-> 0, papers_summarized |-> 0,
     progress_percent |-> 0, result |-> NULL, error_message |-> NULL,
     celery_task_id |-> NULL]

\* A Paper row nobody has worked on (what get_or_create inserts).
NewPaper ==
    [pdf_path |-> NULL, extracted_text |-> NULL, summary |-> NULL]

Call(op, d) == [op |-> op, paper |-> d, sentinel |-> NULL]
NoCall == Call("none", 0)
NoCounts == [download |-> 0, extract |-> 0, summarize |-> 0]

\* Summaries.  A valid summary has more than 100 characters (line 226).  The
\* sentinels "[Summary too short or invalid]", "[OpenAI API error]" and
\* "[Summary failed]" (lines 232, 237, 243) are read alike by every test of
\* the code (non-empty, not above 100 characters, without "[failed]"); the
\* row keeps them as one value, and the step that writes one says which.
SUMMARY_VALID == "valid summary"
SUMMARY_SENTINEL == "[sentinel]"
SentinelCauses == {"too short", "OpenAI API error", "failed"}

\* line 252: paper.summary and "[failed]" not in summary.lower() and len > 100.
Collectable(summary) ==
    /\ summary # NULL
    /\ summary # SUMMARY_SENTINEL

\* ------------------------------------------------- update_task_progress
\* Mutant: the weight of the generation is credited in every stage.
ProgressOf_crediting_generate_always(t) ==
    IF t.total_papers_target = 0
    THEN 0
    ELSE LET target == t.total_papers_target
             search == IF t.papers_found > 0 THEN W_SEARCH * Scale ELSE 0
             download == (t.papers_downloaded * W_DOWNLOAD * Scale) \div target
             extract == (t.papers_extracted * W_EXTRACT * Scale) \div target
             summarize == (t.papers_summarized * W_SUMMARIZE * Scale) \div target
             generate == W_GENERATE * Scale
             progress == search + download + extract + summarize + generate
         IN  IF progress < PROGRESS_CAP * Scale THEN progress ELSE PROGRESS_CAP * Scale

\* The value update_task_progress computes for the in-memory task t
\* (times Scale).  With no target it is 0.
ProgressOf(t) ==
    IF t.total_papers_target = 0
    THEN 0
    ELSE LET target == t.total_papers_target
             search == IF t.papers_found > 0 THEN W_SEARCH * Scale ELSE 0
             download == (t.papers_downloaded * W_DOWNLOAD * Scale) \div target
             extract == (t.papers_extracted * W_EXTRACT * Scale) \div target
             summarize == (t.papers_summarized * W_SUMMARIZE * Scale) \div target
             generate == IF t.current_stage = "generating_review"
                         THEN W_GENERATE * Scale ELSE 0
             progress == search + download + extract + summarize + generate
         IN  IF progress < PROGRESS_CAP * Scale THEN progress ELSE PROGRESS_CAP * Scale

\* update_task_progress(task): sets progress_percent on the in-memory task
\* and, unless the target is 0, writes that one column to the row.
update_task_progress ==
    /\ wtask' = [wtask EXCEPT !.progress_percent = ProgressOf(wtask)]
    /\ task' = IF wtask.total_papers_target = 0
               THEN task
               ELSE [task EXCEPT !.progress_percent = ProgressOf(wtask)]

\* ------------------------------------------------ generate_review_task
viewVars == <<createPc, cancelPc, ctask>>
queueVars == <<queue, revoked, retries, events>>
loopVars == <<papers_data, idx, paper, counts, processed_papers>>

\* The in-memory objects of an invocation are gone when it ends.
Forget ==
    /\ wtask' = NewReviewTask
    /\ papers_data' = 0
    /\ idx' = 0
    /\ paper' = NewPaper
    /\ counts' = NoCounts
    /\ processed_papers' = {}

\* The task function returns.  With CELERY_TASK_ACKS_LATE the message is
\* acknowledged only after that, whether the function returned or raised.
Return ==
    /\ wpc' = "ack"
    /\ Forget

\* The process of the invocation is gone.
Stop ==
    /\ wpc' = "idle"
    /\ Forget

\* Mutant: the handler saves the failure and leaves current_stage as it was.
Handler_keeping_stage(message) ==
    /\ task' = [wtask EXCEPT !.status = "failed", !.error_message = message]
    /\ wpc' = "raised"
    /\ Forget

\* lines 354-360: the top-level handler persists the failure and re-raises.
\* The task never calls self.retry and declares no autoretry_for, so the
\* queue runs it again only when the message is delivered again.
Handler(message) ==
    /\ task' = [wtask EXCEPT !.status = "failed", !.error_message = message,
                            !.current_stage = NULL]
    /\ wpc' = "raised"
    /\ Forget

\* lines 72-76: load the row, mark it running, save it.
grt_start ==
    /\ app = "literature"
    /\ wpc = "idle" /\ queue > 0 /\ ~revoked
    /\ queue' = queue - 1
    /\ wtask' = [task EXCEPT !.status = "running",
                            !.current_stage = "searching_openalex"]
    /\ task' = wtask'
    /\ wpc' = "search"
    /\ call' = NoCall
    /\ UNCHANGED <<app, docVars, quotaVars, retryVars, fetchVars, reviews, updated_at, litappVars, papers, revoked, retries, events, loopVars, viewVars>>

\* lines 93-101, 354-360: the search fails or returns nothing.
grt_search_fail ==
    /\ app = "literature"
    /\ wpc = "search"
    /\ Handler("Failed to search OpenAlex")
    /\ call' = Call("search", 0)
    /\ UNCHANGED <<app, docVars, quotaVars, retryVars, fetchVars, reviews, updated_at, litappVars, papers, queueVars, viewVars>>

\* lines 93-106: the search returns n works; found and target are saved.
grt_search ==
    /\ app = "literature"
    /\ wpc = "search"
    /\ \E n \in Papers :
          /\ papers_data' = n
          /\ wtask' = [wtask EXCEPT !.papers_found = n, !.total_papers_target = n]
    /\ task' = wtask'
    /\ wpc' = "progress_found"
    /\ call' = Call("search", 0)
    /\ UNCHANGED <<app, docVars, quotaVars, retryVars, fetchVars, reviews, updated_at, litappVars, papers, queueVars, idx, paper, counts, processed_papers, viewVars>>

\* line 107
grt_progress_found ==
    /\ app = "literature"
    /\ wpc = "progress_found"
    /\ update_task_progress
    /\ wpc' = "stage_download"
    /\ call' = NoCall
    /\ UNCHANGED <<app, docVars, quotaVars, retryVars, fetchVars, reviews, updated_at, litappVars, papers, queueVars, loopVars, viewVars>>

\* lines 110-118: the stage is saved and the loop over the works starts.
grt_stage_download ==
    /\ app = "literature"
    /\ wpc = "stage_download"
    /\ wtask' = [wtask EXCEPT !.current_stage = "downloading_pdfs"]
    /\ task' = wtask'
    /\ idx' = 1
    /\ counts' = NoCounts
    /\ processed_papers' = {}
    /\ wpc' = "get_paper"
    /\ call' = NoCall
    /\ UNCHANGED <<app, docVars, quotaVars, retryVars, fetchVars, reviews, updated_at, litappVars, papers, queueVars, papers_data, paper, viewVars>>

\* lines 120-148: the next search record; get_or_create loads the Paper row
\* (inserting it when new), the metadata are refreshed and saved.
grt_get_paper ==
    /\ app = "literature"
    /\ wpc = "get_paper" /\ idx <= papers_data
    /\ paper' = papers[idx]
    /\ papers' = [papers EXCEPT ![idx] = paper']
    /\ wpc' = "download"
    /\ call' = NoCall
    /\ UNCHANGED <<app, docVars, quotaVars, retryVars, fetchVars, reviews, updated_at, litappVars, task, queueVars, wtask, papers_data, idx, counts,
                   processed_papers, viewVars>>

\* lines 263-269: a record that raises (no 'id', say) is logged and skipped.
grt_paper_error ==
    /\ app = "literature"
    /\ wpc = "get_paper" /\ idx <= papers_data
    /\ idx' = idx + 1
    /\ call' = NoCall
    /\ UNCHANGED <<app, docVars, quotaVars, retryVars, fetchVars, reviews, updated_at, litappVars, task, papers, queueVars, wpc, wtask, papers_data, paper,
                   counts, processed_papers, viewVars>>

\* Mutant: the download no longer looks at the stored path.
NeedsDownload_ignoring_path(p, pdf_url) == pdf_url

\* line 151: the guard of the download.
NeedsDownload(p, pdf_url) == pdf_url /\ p.pdf_path = NULL

\* lines 168-169
SaveDownloaded(count) ==
    /\ wtask' = [wtask EXCEPT !.papers_downloaded = count]
    /\ task' = wtask'

\* lines 151-162, 168-169: the PDF is fetched and stored, the path saved on
\* the Paper row, the count on the task.
grt_download ==
    /\ app = "literature"
    /\ wpc = "download" /\ NeedsDownload(paper, TRUE)
    /\ paper' = [paper EXCEPT !.pdf_path = "pdf"]
    /\ papers' = [papers EXCEPT ![idx] = paper']
    /\ counts' = [counts EXCEPT !.download = @ + 1]
    /\ SaveDownloaded(counts'.download)
    /\ wpc' = "progress_downloaded"
    /\ call' = Call("download", idx)
    /\ UNCHANGED <<app, docVars, quotaVars, retryVars, fetchVars, reviews, updated_at, litappVars, queueVars, papers_data, idx, processed_papers, viewVars>>

\* lines 151-169: the fetch fails (status, size or exception): no path.
grt_download_fail ==
    /\ app = "literature"
    /\ wpc = "download" /\ NeedsDownload(paper, TRUE)
    /\ SaveDownloaded(counts.download)
    /\ wpc' = "progress_downloaded"
    /\ call' = Call("download", idx)
    /\ UNCHANGED <<app, docVars, quotaVars, retryVars, fetchVars, reviews, updated_at, litappVars, papers, queueVars, loopVars, viewVars>>

\* lines 151, 168-169: the work has no PDF URL, or the row has a path already.
grt_download_skip ==
    /\ app = "literature"
    /\ wpc = "download"
    /\ \E pdf_url \in BOOLEAN : ~NeedsDownload(paper, pdf_url)
    /\ SaveDownloaded(counts.download)
    /\ wpc' = "progress_downloaded"
    /\ call' = NoCall
    /\ UNCHANGED <<app, docVars, quotaVars, retryVars, fetchVars, reviews, updated_at, litappVars, papers, queueVars, loopVars, viewVars>>

\* line 170
grt_progress_downloaded ==
    /\ app = "literature"
    /\ wpc = "progress_downloaded"
    /\ update_task_progress
    /\ wpc' = "stage_extract"
    /\ call' = NoCall
    /\ UNCHANGED <<app, docVars, quotaVars, retryVars, fetchVars, reviews, updated_at, litappVars, papers, queueVars, loopVars, viewVars>>

\* Mutant: the extraction no longer asks for a stored path.
NeedsExtract_without_path(p) == p.extracted_text = NULL

\* line 173: the guard of the extraction.
NeedsExtract(p) == p.pdf_path # NULL /\ p.extracted_text = NULL

\* lines 199-200
SaveExtracted(count) ==
    /\ wtask' = [wtask EXCEPT !.papers_extracted = count]
    /\ task' = wtask'

\* lines 173-175
grt_stage_extract ==
    /\ app = "literature"
    /\ wpc = "stage_extract" /\ NeedsExtract(paper)
    /\ wtask' = [wtask EXCEPT !.current_stage = "extracting_text"]
    /\ task' = wtask'
    /\ wpc' = "extract"
    /\ call' = NoCall
    /\ UNCHANGED <<app, docVars, quotaVars, retryVars, fetchVars, reviews, updated_at, litappVars, papers, queueVars, loopVars, viewVars>>

\* lines 177-193, 199-200: more than 200 characters of text: saved on the row.
grt_extract ==
    /\ app = "literature"
    /\ wpc = "extract"
    /\ paper' = [paper EXCEPT !.extracted_text = "text"]
    /\ papers' = [papers EXCEPT ![idx] = paper']
    /\ counts' = [counts EXCEPT !.extract = @ + 1]
    /\ SaveExtracted(counts'.extract)
    /\ wpc' = "progress_extracted"
    /\ call' = Call("extract", idx)
    /\ UNCHANGED <<app, docVars, quotaVars, retryVars, fetchVars, reviews, updated_at, litappVars, queueVars, papers_data, idx, processed_papers, viewVars>>

\* lines 177-200: too little text, or the PDF cannot be read.
grt_extract_fail ==
    /\ app = "literature"
    /\ wpc = "extract"
    /\ SaveExtracted(counts.extract)
    /\ wpc' = "progress_extracted"
    /\ call' = Call("extract", idx)
    /\ UNCHANGED <<app, docVars, quotaVars, retryVars, fetchVars, reviews, updated_at, litappVars, papers, queueVars, loopVars, viewVars>>

\* lines 173, 199-200: nothing to extract.
grt_extract_skip ==
    /\ app = "literature"
    /\ wpc = "stage_extract" /\ ~NeedsExtract(paper)
    /\ SaveExtracted(counts.extract)
    /\ wpc' = "progress_extracted"
    /\ call' = NoCall
    /\ UNCHANGED <<app, docVars, quotaVars, retryVars, fetchVars, reviews, updated_at, litappVars, papers, queueVars, loopVars, viewVars>>

\* line 201
grt_progress_extracted ==
    /\ app = "literature"
    /\ wpc = "progress_extracted"
    /\ update_task_progress
    /\ wpc' = "stage_summarize"
    /\ call' = NoCall
    /\ UNCHANGED <<app, docVars, quotaVars, retryVars, fetchVars, reviews, updated_at, litappVars, papers, queueVars, loopVars, viewVars>>

\* Mutant: a sentinel counts as no summary.
NeedsSummary_again_after_sentinel(p) ==
    p.extracted_text # NULL /\ ~Collectable(p.summary)

\* line 204: the guard of the summary.
NeedsSummary(p) == p.extracted_text # NULL /\ p.summary = NULL

\* lines 247-248
SaveSummarized(count) ==
    /\ wtask' = [wtask EXCEPT !.papers_summarized = count]
    /\ task' = wtask'

\* lines 204-206
grt_stage_summarize ==
    /\ app = "literature"
    /\ wpc = "stage_summarize" /\ NeedsSummary(paper)
    /\ wtask' = [wtask EXCEPT !.current_stage = "summarizing_papers"]
    /\ task' = wtask'
    /\ wpc' = "summarize"
    /\ call' = NoCall
    /\ UNCHANGED <<app, docVars, quotaVars, retryVars, fetchVars, reviews, updated_at, litappVars, papers, queueVars, loopVars, viewVars>>

\* lines 208-230, 233, 247-248: a summary of more than 100 characters.
grt_summarize ==
    /\ app = "literature"
    /\ wpc = "summarize"
    /\ paper' = [paper EXCEPT !.summary = SUMMARY_VALID]
    /\ papers' = [papers EXCEPT ![idx] = paper']
    /\ counts' = [counts EXCEPT !.summarize = @ + 1]
    /\ SaveSummarized(counts'.summarize)
    /\ wpc' = "progress_summarized"
    /\ call' = Call("summarize", idx)
    /\ UNCHANGED <<app, docVars, quotaVars, retryVars, fetchVars, reviews, updated_at, litappVars, queueVars, papers_data, idx, processed_papers, viewVars>>

\* lines 231-248: a short answer, a provider error or any other exception
\* leaves a sentinel on the row.
grt_summarize_fail ==
    /\ app = "literature"
    /\ wpc = "summarize"
    /\ paper' = [paper EXCEPT !.summary = SUMMARY_SENTINEL]
    /\ papers' = [papers EXCEPT ![idx] = paper']
    /\ SaveSummarized(counts.summarize)
    /\ wpc' = "progress_summarized"
    /\ \E cause \in SentinelCauses :
          call' = [op |-> "summarize", paper |-> idx, sentinel |-> cause]
    /\ UNCHANGED <<app, docVars, quotaVars, retryVars, fetchVars, reviews, updated_at, litappVars, queueVars, papers_data, idx, counts, processed_papers,
                   viewVars>>

\* lines 204, 247-248: nothing to summarize.
grt_summarize_skip ==
    /\ app = "literature"
    /\ wpc = "stage_summarize" /\ ~NeedsSummary(paper)
    /\ SaveSummarized(counts.summarize)
    /\ wpc' = "progress_summarized"
    /\ call' = NoCall
    /\ UNCHANGED <<app, docVars, quotaVars, retryVars, fetchVars, reviews, updated_at, litappVars, papers, queueVars, loopVars, viewVars>>

\* lines 249-261: progress, then the paper is collected when its summary is
\* usable, and the loop goes on.
grt_progress_summarized ==
    /\ app = "literature"
    /\ wpc = "progress_summarized"
    /\ update_task_progress
    /\ processed_papers' = IF Collectable(paper.summary)
                           THEN processed_papers \cup {idx}
                           ELSE processed_papers
    /\ idx' = idx + 1
    /\ paper' = NewPaper
    /\ wpc' = "get_paper"
    /\ call' = NoCall
    /\ UNCHANGED <<app, docVars, quotaVars, retryVars, fetchVars, reviews, updated_at, litappVars, papers, queueVars, papers_data, counts, viewVars>>

\* Mutant: the job fails as soon as one document was left out.
grt_no_papers_when_some_left_out ==
    /\ app = "literature"
    /\ wpc = "get_paper" /\ idx > papers_data
    /\ Cardinality(processed_papers) < papers_data
    /\ task' = [wtask EXCEPT !.error_message = "No papers could be processed",
                            !.status = "failed"]
    /\ Return
    /\ call' = NoCall
    /\ UNCHANGED <<app, docVars, quotaVars, retryVars, fetchVars, reviews, updated_at, litappVars, papers, queueVars, viewVars>>

\* lines 272-287: nothing collected: the job fails and the task returns.
grt_no_papers ==
    /\ app = "literature"
    /\ wpc = "get_paper" /\ idx > papers_data
    /\ processed_papers = {}
    /\ task' = [wtask EXCEPT !.error_message = "No papers could be processed",
                            !.status = "failed"]
    /\ Return
    /\ call' = NoCall
    /\ UNCHANGED <<app, docVars, quotaVars, retryVars, fetchVars, reviews, updated_at, litappVars, papers, queueVars, viewVars>>

\* Mutant: the generating stage is entered without looking at what was
\* collected.
grt_stage_generate_unguarded ==
    /\ app = "literature"
    /\ wpc = "get_paper" /\ idx > papers_data
    /\ wtask' = [wtask EXCEPT !.current_stage = "generating_review"]
    /\ task' = wtask'
    /\ wpc' = "progress_generate"
    /\ call' = NoCall
    /\ UNCHANGED <<app, docVars, quotaVars, retryVars, fetchVars, reviews, updated_at, litappVars, papers, queueVars, loopVars, viewVars>>

\* lines 289-290
grt_stage_generate ==
    /\ app = "literature"
    /\ wpc = "get_paper" /\ idx > papers_data
    /\ processed_papers # {}
    /\ wtask' = [wtask EXCEPT !.current_stage = "generating_review"]
    /\ task' = wtask'
    /\ wpc' = "progress_generate"
    /\ call' = NoCall
    /\ UNCHANGED <<app, docVars, quotaVars, retryVars, fetchVars, reviews, updated_at, litappVars, papers, queueVars, loopVars, viewVars>>

\* line 291
grt_progress_generate ==
    /\ app = "literature"
    /\ wpc = "progress_generate"
    /\ update_task_progress
    /\ wpc' = "generate"
    /\ call' = NoCall
    /\ UNCHANGED <<app, docVars, quotaVars, retryVars, fetchVars, reviews, updated_at, litappVars, papers, queueVars, loopVars, viewVars>>

\* lines 316-329: the final generation call fails: the job fails, the task
\* returns.
grt_generate_fail ==
    /\ app = "literature"
    /\ wpc = "generate"
    /\ task' = [wtask EXCEPT !.error_message = "Failed to generate final review",
                            !.status = "failed"]
    /\ Return
    /\ call' = Call("generate", 0)
    /\ UNCHANGED <<app, docVars, quotaVars, retryVars, fetchVars, reviews, updated_at, litappVars, papers, queueVars, viewVars>>

\* Mutant: the success is saved in two steps, the status before the result.
grt_finish_status_first ==
    /\ app = "literature"
    /\ wpc = "generate"
    /\ task' = [wtask EXCEPT !.status = "finished", !.current_stage = NULL,
                            !.progress_percent = PROGRESS_DONE * Scale]
    /\ Return
    /\ call' = Call("generate", 0)
    /\ UNCHANGED <<app, docVars, quotaVars, retryVars, fetchVars, reviews, updated_at, litappVars, papers, queueVars, viewVars>>

\* lines 316-346: the review is generated (with the note of line 332 when it
\* has fewer than 3000 words) and the success is saved.
grt_finish ==
    /\ app = "literature"
    /\ wpc = "generate"
    /\ \E text \in {"review", "review [Note: shorter than 3000 words]"} :
          task' = [wtask EXCEPT !.result = text, !.status = "finished",
                                !.current_stage = NULL,
                                !.progress_percent = PROGRESS_DONE * Scale]
    /\ Return
    /\ call' = Call("generate", 0)
    /\ UNCHANGED <<app, docVars, quotaVars, retryVars, fetchVars, reviews, updated_at, litappVars, papers, queueVars, viewVars>>

\* The task has returned or raised, and the message is acknowledged.
grt_ack ==
    /\ app = "literature"
    /\ wpc \in {"ack", "raised"}
    /\ Stop
    /\ call' = NoCall
    /\ UNCHANGED <<app, docVars, quotaVars, retryVars, fetchVars, reviews, updated_at, litappVars, task, papers, queueVars, viewVars>>

\* The steps of the task during which it waits for an external call.
InCall == {"search", "download", "extract", "summarize", "generate"}

\* CELERY_TASK_ACKS_LATE with CELERY_TASK_REJECT_ON_WORKER_LOST: a worker
\* process lost in the middle of the task, or after its last save and before
\* the acknowledgement, leaves the row as it is, and the message goes back to
\* the queue.
worker_lost ==
    /\ app = "literature"
    /\ wpc \in InCall \cup {"ack", "raised"}
    /\ events < MaxEvents
    /\ events' = events + 1
    /\ queue' = queue + 1
    /\ Stop
    /\ call' = NoCall
    /\ UNCHANGED <<app, docVars, quotaVars, retryVars, fetchVars, reviews, updated_at, litappVars, task, papers, revoked, retries, viewVars>>

\* revoke(terminate=True): the signal reaches the worker process at some
\* later moment, and the process stops where it is.
worker_terminated ==
    /\ app = "literature"
    /\ wpc # "idle" /\ revoked
    /\ Stop
    /\ call' = NoCall
    /\ UNCHANGED <<app, docVars, quotaVars, retryVars, fetchVars, reviews, updated_at, litappVars, task, papers, queueVars, viewVars>>

\* A worker that receives a message of a revoked task discards it.
worker_discard ==
    /\ app = "literature"
    /\ wpc = "idle" /\ queue > 0 /\ revoked
    /\ queue' = queue - 1
    /\ call' = NoCall
    /\ UNCHANGED <<app, docVars, quotaVars, retryVars, fetchVars, reviews, updated_at, litappVars, task, papers, revoked, retries, events, wpc, wtask,
                   loopVars, viewVars>>

generate_review_task ==
    \/ grt_start \/ grt_search_fail \/ grt_search \/ grt_progress_found
    \/ grt_stage_download
    \/ grt_get_paper \/ grt_paper_error
    \/ grt_download \/ grt_download_fail \/ grt_download_skip
    \/ grt_progress_downloaded
    \/ grt_stage_extract \/ grt_extract \/ grt_extract_fail \/ grt_extract_skip
    \/ grt_progress_extracted
    \/ grt_stage_summarize \/ grt_summarize \/ grt_summarize_fail
    \/ grt_summarize_skip \/ grt_progress_summarized
    \/ grt_no_papers \/ grt_stage_generate \/ grt_progress_generate
    \/ grt_generate_fail \/ grt_finish \/ grt_ack

\* -------------------------------------------- ReviewTaskViewSet (views.py)
workerVars == <<wpc, wtask, papers_data, idx, paper, counts, processed_papers>>

\* lines 38-39: the task is enqueued and its id put on the view's copy.
create_enqueue ==
    /\ app = "literature"
    /\ createPc = "enqueue"
    /\ queue' = queue + 1
    /\ createPc' = "save"
    /\ call' = NoCall
    /\ UNCHANGED <<app, docVars, quotaVars, retryVars, fetchVars, reviews, updated_at, litappVars, task, papers, revoked, retries, events, workerVars,
                   cancelPc, ctask>>

\* line 40: the view saves its copy, the row as created plus the task id.
create_save ==
    /\ app = "literature"
    /\ createPc = "save"
    /\ task' = [NewReviewTask EXCEPT !.celery_task_id = "task-id"]
    /\ createPc' = "done"
    /\ call' = NoCall
    /\ UNCHANGED <<app, docVars, quotaVars, retryVars, fetchVars, reviews, updated_at, litappVars, papers, queueVars, workerVars, cancelPc, ctask>>

\* Mutant: a failed job can be canceled too.
Cancelable_also_failed(status) == status \in {"pending", "running", "failed"}

\* line 112: the statuses in which a cancel request is accepted.
Cancelable(status) == status \in {"pending", "running"}

\* lines 111-113: the row is loaded; a job that is neither pending nor
\* running is answered with an error.
cancel_reject ==
    /\ app = "literature"
    /\ cancelPc = "idle" /\ events < MaxEvents
    /\ ~Cancelable(task.status)
    /\ events' = events + 1
    /\ call' = Call("cancel rejected", 0)
    /\ UNCHANGED <<app, docVars, quotaVars, retryVars, fetchVars, reviews, updated_at, litappVars, task, papers, queue, revoked, retries, workerVars,
                   createPc, cancelPc, ctask>>

\* lines 111-112: the row is loaded and the job can be canceled.
cancel_load ==
    /\ app = "literature"
    /\ cancelPc = "idle" /\ events < MaxEvents
    /\ Cancelable(task.status)
    /\ events' = events + 1
    /\ ctask' = task
    /\ cancelPc' = "revoke"
    /\ call' = NoCall
    /\ UNCHANGED <<app, docVars, quotaVars, retryVars, fetchVars, reviews, updated_at, litappVars, task, papers, queue, revoked, retries, workerVars, createPc>>

\* Mutant: the cancel forgets to clear current_stage.
cancel_save_keeping_stage ==
    /\ app = "literature"
    /\ cancelPc = "revoke"
    /\ revoked' = (revoked \/ ctask.celery_task_id # NULL)
    /\ task' = [ctask EXCEPT !.status = "canceled"]
    /\ ctask' = NewReviewTask
    /\ cancelPc' = "idle"
    /\ call' = Call(IF ctask.celery_task_id # NULL THEN "cancel accepted, revoke"
                     ELSE "cancel accepted", 0)
    /\ UNCHANGED <<app, docVars, quotaVars, retryVars, fetchVars, reviews, updated_at, litappVars, papers, queue, retries, events, workerVars,
                   createPc>>

\* lines 115-122: the task is revoked when the copy has its id; the copy is
\* marked canceled and saved; the request is answered.
cancel_save ==
    /\ app = "literature"
    /\ cancelPc = "revoke"
    /\ revoked' = (revoked \/ ctask.celery_task_id # NULL)
    /\ task' = [ctask EXCEPT !.status = "canceled", !.current_stage = NULL]
    /\ ctask' = NewReviewTask
    /\ cancelPc' = "idle"
    /\ call' = Call(IF ctask.celery_task_id # NULL THEN "cancel accepted, revoke"
                     ELSE "cancel accepted", 0)
    /\ UNCHANGED <<app, docVars, quotaVars, retryVars, fetchVars, reviews, updated_at, litappVars, papers, queue, retries, events, workerVars, createPc>>

create == create_enqueue \/ create_save
cancel == cancel_reject \/ cancel_load \/ cancel_save

\* ======================================================= litapp variant
\* The row SubmitLiteratureReviewSearch.post commits (views.py lines 57-77):
\* status pending, with the task id generated for it.
NewJob ==
    [status |-> "pending", celery_task_id |-> "task-id", result_text |-> NULL,
     error_message |-> NULL, review |-> NULL, completed_at |-> NULL]

\* The ids of the LiteratureReview rows, in the order of their creation.
ReviewIds == <<"review-1", "review-2", "review-3", "review-4", "review-5",
               "review-6", "review-7", "review-8">>

\* A litapp Paper row nobody has worked on.
NewLPaper == [text |-> NULL, cached_file |-> NULL]

\* views.py lines 80-84: the first task is enqueued under the stored id.
submit_enqueue ==
    /\ app = "litapp"
    /\ createPc = "enqueue"
    /\ queue' = queue + 1
    /\ createPc' = "done"
    /\ call' = NoCall
    /\ UNCHANGED <<app, docVars, quotaVars, retryVars, fetchVars, reviews, updated_at, literatureVars, litappVars, revoked, retries, events,
                   papers_data, idx, cancelPc>>

\* ------------------------------------- generate_literature_review_job
\* The invocation ends: its in-memory objects are gone.
JobReturn ==
    /\ jpc' = "idle"
    /\ jmem' = NewJob
    /\ papers_data' = 0
    /\ idx' = 0
    /\ extracted_papers' = {}

\* tasks.py lines 156-162: the handler saves the failure and returns.
JobHandler(message) ==
    /\ job' = [jmem EXCEPT !.status = "failed", !.error_message = message]
    /\ JobReturn

\* tasks.py lines 117-126: under the row lock, the id is stored if missing and
\* the job saved as processing.
glrj_start ==
    /\ app = "litapp"
    /\ jpc = "idle" /\ queue > 0 /\ ~revoked
    /\ queue' = queue - 1
    /\ jmem' = [job EXCEPT
                  !.celery_task_id = IF @ = NULL THEN "task-id" ELSE @,
                  !.status = "processing",
                  !.result_text = "Fetching papers and extracting full texts..."]
    /\ job' = jmem'
    /\ updated_at' = "recent"
    /\ jpc' = "fetch"
    /\ call' = NoCall
    /\ UNCHANGED <<app, docVars, quotaVars, retryVars, fetchVars, reviews, literatureVars, revoked, retries, events, papers_data, idx,
                   createPc, cancelPc, lpapers, cache, extracted_papers, lqueue,
                   lpc, lmem, cjob>>

\* tasks.py lines 131-133, 156-162: the search fails or finds nothing.
glrj_fetch_fail ==
    /\ app = "litapp"
    /\ jpc = "fetch"
    /\ JobHandler("No papers found")
    /\ call' = Call("search", 0)
    /\ UNCHANGED <<app, docVars, quotaVars, retryVars, fetchVars, reviews, updated_at, literatureVars, queue, revoked, retries, events, createPc,
                   cancelPc, lpapers, cache, lqueue, lpc, lmem, cjob>>

\* tasks.py lines 131-136: the search returns n works.
glrj_fetch ==
    /\ app = "litapp"
    /\ jpc = "fetch"
    /\ \E n \in Papers : papers_data' = n
    /\ idx' = 1
    /\ extracted_papers' = {}
    /\ jpc' = "paper"
    /\ call' = Call("search", 0)
    /\ UNCHANGED <<app, docVars, quotaVars, retryVars, fetchVars, reviews, updated_at, literatureVars, queue, revoked, retries, events, createPc,
                   cancelPc, job, lpapers, cache, jmem, lqueue, lpc, lmem, cjob>>

\* tasks.py line 89: text and cached file are there already.
AlreadyProcessed(p) == p.text # NULL /\ p.cached_file # NULL

\* tasks.py lines 137-143 and 86-87: a record create_or_update_paper rejects,
\* or a work without PDF URL, is passed over.
glrj_paper_skip ==
    /\ app = "litapp"
    /\ jpc = "paper" /\ idx <= papers_data
    /\ idx' = idx + 1
    /\ call' = NoCall
    /\ UNCHANGED <<app, docVars, quotaVars, retryVars, fetchVars, reviews, updated_at, literatureVars, litappVars, queue, revoked, retries,
                   events, papers_data, createPc, cancelPc>>

\* tasks.py lines 89-90, 139-140: nothing to do for a processed paper.
glrj_paper_processed ==
    /\ app = "litapp"
    /\ jpc = "paper" /\ idx <= papers_data
    /\ AlreadyProcessed(lpapers[idx])
    /\ extracted_papers' = extracted_papers \cup {idx}
    /\ idx' = idx + 1
    /\ call' = NoCall
    /\ UNCHANGED <<app, docVars, quotaVars, retryVars, fetchVars, reviews, updated_at, literatureVars, queue, revoked, retries, events,
                   papers_data, createPc, cancelPc, job, lpapers, cache, jpc, jmem,
                   lqueue, lpc, lmem, cjob>>

\* tasks.py line 92, utils.py lines 84-91: download_pdf finds the file in the
\* cache directory and fetches nothing.
glrj_download_cached ==
    /\ app = "litapp"
    /\ jpc = "paper" /\ idx <= papers_data
    /\ ~AlreadyProcessed(lpapers[idx])
    /\ cache[idx]
    /\ jpc' = "extract"
    /\ call' = NoCall
    /\ UNCHANGED <<app, docVars, quotaVars, retryVars, fetchVars, reviews, updated_at, literatureVars, queue, revoked, retries, events,
                   papers_data, idx, createPc, cancelPc, job, lpapers, cache, jmem,
                   extracted_papers, lqueue, lpc, lmem, cjob>>

\* tasks.py line 92, utils.py lines 97-139: the PDF is fetched into the cache.
glrj_download ==
    /\ app = "litapp"
    /\ jpc = "paper" /\ idx <= papers_data
    /\ ~AlreadyProcessed(lpapers[idx])
    /\ ~cache[idx]
    /\ cache' = [cache EXCEPT ![idx] = TRUE]
    /\ jpc' = "extract"
    /\ call' = Call("download", idx)
    /\ UNCHANGED <<app, docVars, quotaVars, retryVars, fetchVars, reviews, updated_at, literatureVars, queue, revoked, retries, events,
                   papers_data, idx, createPc, cancelPc, job, lpapers, jmem,
                   extracted_papers, lqueue, lpc, lmem, cjob>>

\* tasks.py lines 92-94, utils.py lines 141-160: the fetch fails, the partial
\* file is removed.
glrj_download_fail ==
    /\ app = "litapp"
    /\ jpc = "paper" /\ idx <= papers_data
    /\ ~AlreadyProcessed(lpapers[idx])
    /\ ~cache[idx]
    /\ idx' = idx + 1
    /\ call' = Call("download", idx)
    /\ UNCHANGED <<app, docVars, quotaVars, retryVars, fetchVars, reviews, updated_at, literatureVars, litappVars, queue, revoked, retries,
                   events, papers_data, createPc, cancelPc>>

\* tasks.py lines 96-102, 139-140: more than 100 characters of text: text and
\* cache reference are saved on the row.
glrj_extract ==
    /\ app = "litapp"
    /\ jpc = "extract"
    /\ lpapers' = [lpapers EXCEPT ![idx] = [text |-> "text", cached_file |-> "file"]]
    /\ extracted_papers' = extracted_papers \cup {idx}
    /\ idx' = idx + 1
    /\ jpc' = "paper"
    /\ call' = Call("extract", idx)
    /\ UNCHANGED <<app, docVars, quotaVars, retryVars, fetchVars, reviews, updated_at, literatureVars, queue, revoked, retries, events,
                   papers_data, createPc, cancelPc, job, cache, jmem, lqueue, lpc,
                   lmem, cjob>>

\* tasks.py lines 96-104: too little text.
glrj_extract_fail ==
    /\ app = "litapp"
    /\ jpc = "extract"
    /\ idx' = idx + 1
    /\ jpc' = "paper"
    /\ call' = Call("extract", idx)
    /\ UNCHANGED <<app, docVars, quotaVars, retryVars, fetchVars, reviews, updated_at, literatureVars, queue, revoked, retries, events,
                   papers_data, createPc, cancelPc, job, lpapers, cache, jmem,
                   extracted_papers, lqueue, lpc, lmem, cjob>>

\* tasks.py lines 145-146, 156-162: no text at all: the job fails.
glrj_no_text ==
    /\ app = "litapp"
    /\ jpc = "paper" /\ idx > papers_data
    /\ extracted_papers = {}
    /\ JobHandler("No full text could be extracted from any paper")
    /\ call' = NoCall
    /\ UNCHANGED <<app, docVars, quotaVars, retryVars, fetchVars, reviews, updated_at, literatureVars, queue, revoked, retries, events, createPc,
                   cancelPc, lpapers, cache, lqueue, lpc, lmem, cjob>>

\* Mutant: the generation task is queued whatever was extracted.
glrj_chain_unguarded ==
    /\ app = "litapp"
    /\ jpc = "paper" /\ idx > papers_data
    /\ lqueue' = lqueue + 1
    /\ JobReturn
    /\ call' = NoCall
    /\ UNCHANGED <<app, docVars, quotaVars, retryVars, fetchVars, reviews, updated_at, literatureVars, queue, revoked, retries, events, createPc,
                   cancelPc, job, lpapers, cache, lpc, lmem, cjob>>

\* tasks.py lines 148-154: the generation task is queued and this one returns.
glrj_chain ==
    /\ app = "litapp"
    /\ jpc = "paper" /\ idx > papers_data
    /\ extracted_papers # {}
    /\ lqueue' = lqueue + 1
    /\ JobReturn
    /\ call' = NoCall
    /\ UNCHANGED <<app, docVars, quotaVars, retryVars, fetchVars, reviews, updated_at, literatureVars, queue, revoked, retries, events, createPc,
                   cancelPc, job, lpapers, cache, lpc, lmem, cjob>>

\* CELERY_TASK_ACKS_LATE with CELERY_TASK_REJECT_ON_WORKER_LOST, as for the
\* other variant.
glrj_lost ==
    /\ app = "litapp"
    /\ jpc \in {"fetch", "extract"}
    /\ events < MaxEvents
    /\ events' = events + 1
    /\ queue' = queue + 1
    /\ JobReturn
    /\ call' = NoCall
    /\ UNCHANGED <<app, docVars, quotaVars, retryVars, fetchVars, reviews, updated_at, literatureVars, revoked, retries, createPc, cancelPc, job,
                   lpapers, cache, lqueue, lpc, lmem, cjob>>

\* revoke(terminate=True, signal="SIGKILL") reaches the running first task.
glrj_terminated ==
    /\ app = "litapp"
    /\ jpc # "idle" /\ revoked
    /\ JobReturn
    /\ call' = NoCall
    /\ UNCHANGED <<app, docVars, quotaVars, retryVars, fetchVars, reviews, updated_at, literatureVars, queue, revoked, retries, events, createPc,
                   cancelPc, job, lpapers, cache, lqueue, lpc, lmem, cjob>>

\* A worker that receives a message of a revoked task discards it.
glrj_discard ==
    /\ app = "litapp"
    /\ jpc = "idle" /\ queue > 0 /\ revoked
    /\ queue' = queue - 1
    /\ call' = NoCall
    /\ UNCHANGED <<app, docVars, quotaVars, retryVars, fetchVars, reviews, updated_at, literatureVars, litappVars, revoked, retries, events,
                   papers_data, idx, createPc, cancelPc>>

generate_literature_review_job ==
    \/ glrj_start \/ glrj_fetch_fail \/ glrj_fetch
    \/ glrj_paper_skip \/ glrj_paper_processed
    \/ glrj_download_cached \/ glrj_download \/ glrj_download_fail
    \/ glrj_extract \/ glrj_extract_fail
    \/ glrj_no_text \/ glrj_chain

\* ------------------------------------------------- llm_generation_task
\* LiteratureReviewJob.mark_failed(message): the failure is put on the row.
mark_failed(message) ==
    job' = [job EXCEPT !.status = "failed", !.error_message = message,
                       !.completed_at = "now"]

\* tasks.py lines 172-176: the job is loaded; the papers of the message all
\* have text.
llm_start ==
    /\ app = "litapp"
    /\ lpc = "idle" /\ lqueue > 0
    /\ lqueue' = lqueue - 1
    /\ lmem' = job
    /\ lpc' = "generate"
    /\ call' = NoCall
    /\ UNCHANGED <<app, docVars, quotaVars, retryVars, fetchVars, reviews, updated_at, literatureVars, queue, revoked, retries, events,
                   papers_data, idx, createPc, cancelPc, job, lpapers, cache, jpc,
                   jmem, extracted_papers, cjob>>

\* tasks.py lines 246-252: the handler of llm_generation_task. The job is
\* marked failed with the text of the exception, and the task retried while
\* retries are left.
llm_except(message) ==
    /\ mark_failed(message)
    /\ IF retries < MaxRetries
       THEN retries' = retries + 1 /\ lqueue' = lqueue + 1
       ELSE UNCHANGED <<retries, lqueue>>
    /\ lpc' = "ack"
    /\ lmem' = NewJob
    /\ call' = Call("generate", 0)
    /\ UNCHANGED <<app, docVars, quotaVars, retryVars, fetchVars, reviews, updated_at, literatureVars, queue, revoked, events, papers_data, idx,
                   createPc, cancelPc, lpapers, cache, jpc, jmem, extracted_papers,
                   cjob>>

\* tasks.py lines 172, 246-252: loading the job raises (the row is gone, the
\* database does not answer, the lock cannot be taken). job is still None
\* in the handler, which marks nothing and retries while retries are left.
llm_load_fail ==
    /\ app = "litapp"
    /\ lpc = "idle" /\ lqueue > 0
    /\ IF retries < MaxRetries
       THEN retries' = retries + 1 /\ lqueue' = lqueue
       ELSE retries' = retries /\ lqueue' = lqueue - 1
    /\ lpc' = "ack"
    /\ lmem' = NewJob
    /\ call' = NoCall
    /\ UNCHANGED <<app, docVars, quotaVars, retryVars, fetchVars, reviews, updated_at, literatureVars, queue, revoked, events, papers_data, idx,
                   createPc, cancelPc, job, lpapers, cache, jpc, jmem,
                   extracted_papers, cjob>>

\* tasks.py lines 209-217: the chat completion raises.
llm_fail ==
    /\ app = "litapp"
    /\ lpc = "generate"
    /\ llm_except("LLM task failed")

\* tasks.py lines 219-221: the answer is empty or has fewer than 200
\* characters, and a ValueError is raised.
llm_too_short ==
    /\ app = "litapp"
    /\ lpc = "generate"
    /\ llm_except("Generated review content too short or invalid")

\* tasks.py lines 209-244: the review is created and the job saved completed.
llm_complete ==
    /\ app = "litapp"
    /\ lpc = "generate"
    /\ reviews' = reviews + 1
    /\ job' = [lmem EXCEPT !.status = "completed",
                           !.review = ReviewIds[reviews'],
                           !.result_text = "Generated review",
                           !.completed_at = "now"]
    /\ lpc' = "ack"
    /\ lmem' = NewJob
    /\ call' = Call("generate", 0)
    /\ UNCHANGED <<app, docVars, quotaVars, retryVars, fetchVars, updated_at, literatureVars, queue, revoked, retries, events,
                   papers_data, idx, createPc, cancelPc, lpapers, cache, jpc, jmem,
                   extracted_papers, lqueue, cjob>>

\* The task has returned or raised, and its message is acknowledged.
llm_ack ==
    /\ app = "litapp"
    /\ lpc = "ack"
    /\ lpc' = "idle"
    /\ call' = NoCall
    /\ UNCHANGED <<app, docVars, quotaVars, retryVars, fetchVars, reviews, updated_at, literatureVars, queueVars,
                   papers_data, idx, createPc, cancelPc, job, lpapers, cache, jpc,
                   jmem, extracted_papers, lqueue, lmem, cjob>>

\* CELERY_TASK_ACKS_LATE with CELERY_TASK_REJECT_ON_WORKER_LOST: the worker
\* of llm_generation_task is lost during the call, or after the commit of
\* line 241 and before the acknowledgement; the message goes back to the
\* queue.
llm_lost ==
    /\ app = "litapp"
    /\ lpc \in {"generate", "ack"}
    /\ events < MaxEvents
    /\ events' = events + 1
    /\ lqueue' = lqueue + 1
    /\ lpc' = "idle"
    /\ lmem' = NewJob
    /\ call' = NoCall
    /\ UNCHANGED <<app, docVars, quotaVars, retryVars, fetchVars, reviews, updated_at, literatureVars, queue, revoked, retries,
                   papers_data, idx, createPc, cancelPc, job, lpapers, cache, jpc,
                   jmem, extracted_papers, cjob>>

llm_generation_task ==
    llm_start \/ llm_load_fail \/ llm_fail \/ llm_too_short \/ llm_complete \/ llm_ack

\* ------------------------------------------------- CancelJob (views.py)
\* views.py line 243 (services.py line 40): the statuses in which a cancel
\* request is accepted.
JobCancelable(status) == status \in {"pending", "processing"}

\* views.py lines 233-247: the row is loaded; a job that is neither pending
\* nor processing is answered with an error.
CancelJob_reject ==
    /\ app = "litapp"
    /\ cancelPc = "idle" /\ events < MaxEvents
    /\ ~JobCancelable(job.status)
    /\ events' = events + 1
    /\ call' = Call("cancel rejected", 0)
    /\ UNCHANGED <<app, docVars, quotaVars, retryVars, fetchVars, reviews, updated_at, literatureVars, litappVars, queue, revoked, retries,
                   papers_data, idx, createPc, cancelPc>>

\* views.py lines 233-243: the row is loaded and the job can be canceled.
CancelJob_load ==
    /\ app = "litapp"
    /\ cancelPc = "idle" /\ events < MaxEvents
    /\ JobCancelable(job.status)
    /\ events' = events + 1
    /\ cjob' = job
    /\ cancelPc' = "revoke"
    /\ call' = NoCall
    /\ UNCHANGED <<app, docVars, quotaVars, retryVars, fetchVars, reviews, updated_at, literatureVars, queue, revoked, retries, papers_data, idx,
                   createPc, job, lpapers, cache, jpc, jmem, extracted_papers,
                   lqueue, lpc, lmem>>

\* views.py lines 249-268: the first task is revoked when the copy has its
\* id; status, error_message and completed_at are written to the row.
CancelJob_save ==
    /\ app = "litapp"
    /\ cancelPc = "revoke"
    /\ revoked' = (revoked \/ cjob.celery_task_id # NULL)
    /\ job' = [job EXCEPT !.status = "failed",
                          !.error_message = "Cancelled by user",
                          !.completed_at = "now"]
    /\ cjob' = NewJob
    /\ cancelPc' = "idle"
    /\ call' = Call(IF cjob.celery_task_id # NULL THEN "cancel accepted, revoke"
                     ELSE "cancel accepted", 0)
    /\ UNCHANGED <<app, docVars, quotaVars, retryVars, fetchVars, reviews, updated_at, literatureVars, queue, retries, events, papers_data, idx,
                   createPc, lpapers, cache, jpc, jmem, extracted_papers, lqueue,
                   lpc, lmem>>

CancelJob == CancelJob_reject \/ CancelJob_load \/ CancelJob_save

\* ------------------------------------------------- the reading views
\* literature/views.py lines 97-107, ReviewTaskViewSet.result: what the
\* response carries of the row. A task that is not finished is answered
\* with 'Task not finished' and its status; of a finished task the
\* serializer gives the result.
result(t) ==
    IF t.status # "finished"
    THEN [http |-> 400, status |-> t.status, result |-> NULL,
          error_message |-> NULL]
    ELSE [http |-> 200, status |-> t.status, result |-> t.result,
          error_message |-> NULL]

\* litapp/views.py lines 156-190, GetCompletedReview.get.
GetCompletedReview_get(j) ==
    IF j.status \in {"pending", "processing"}
    THEN [http |-> 202, review |-> NULL, error_message |-> NULL,
          progress_message |-> j.result_text]
    ELSE IF j.status = "failed"
    THEN [http |-> 500, review |-> NULL, error_message |-> j.error_message,
          progress_message |-> NULL]
    ELSE IF j.review = NULL
    THEN [http |-> 404, review |-> NULL, error_message |-> NULL,
          progress_message |-> NULL]
    ELSE [http |-> 200, review |-> j.review, error_message |-> NULL,
          progress_message |-> NULL]

\* litapp/views.py lines 112-141, CheckJobStatus.get.
CheckJobStatus_get(j) ==
    [http |-> 200, status |-> j.status,
     progress_message |-> j.result_text,
     error_message |-> IF j.status = "failed" THEN j.error_message ELSE NULL,
     review_id |-> IF j.status = "completed" THEN j.review ELSE NULL]

\* ------------------------------------------------------------ the system
\* The bounds of the two specifications below.
Jobs == 1..MaxJobs
Requests == 1..MaxRequests
Workers == 1..MaxWorkers

\* Nobody works on a shared document; nobody submits.
NoSharedDocument ==
    /\ dpc = [j \in Jobs |-> "idle"]
    /\ dpaper = [j \in Jobs |-> NewPaper]
    /\ downloads = {}
    /\ cached0 = FALSE

NoSubmissions ==
    /\ rpc = [r \in Requests |-> "idle"]
    /\ active = 0
    /\ tasks = 0

\* No message of the job waits, no worker executes it.
NoInvocation ==
    /\ messages = {}
    /\ running = [w \in Workers |-> NULL]
    /\ revokedIds = {}

\* A URL as urlparse reads it; the empty string has neither part.
EmptyUrl == [scheme |-> "", netloc |-> ""]

\* No file at the path, no answer of a server.
NoFile == [exists |-> FALSE, size |-> 0]
NoResponse == [has_length |-> FALSE, content_length |-> 0, body |-> 0]

\* utils.py lines 28-33: Retry(total=3, ...,
\* status_forcelist=[429, 500, 502, 503, 504]).
Retry_total == 3
status_forcelist == {429, 500, 502, 503, 504}

\* utils.py line 98: every call has a session of its own, which has sent
\* nothing.
NewSession ==
    /\ total = Retry_total
    /\ sends = 0
    /\ status_code = 0

\* The calls of download_pdf that run at the same time for one URL.
MaxCallers == 2
Callers == 1 .. MaxCallers

\* A call that has not started: nothing returned, nothing written, no file
\* open.
NewCaller == [pc |-> "idle", returned |-> "nothing", written |-> 0,
              linked |-> FALSE]

\* No download is followed on its own.
NoFetch ==
    /\ fpc = "idle"
    /\ url = EmptyUrl
    /\ cached_pdf = NoFile
    /\ response = NoResponse
    /\ returned = "nothing"
    /\ NewSession
    /\ callers = [c \in Callers |-> NewCaller]

Init ==
    /\ app \in {"literature", "litapp"}
    /\ task = NewReviewTask
    /\ papers = [d \in Papers |-> NewPaper]
    /\ queue = 0
    /\ revoked = FALSE
    /\ retries = 0
    /\ events = 0
    /\ wpc = "idle"
    /\ wtask = NewReviewTask
    /\ papers_data = 0
    /\ idx = 0
    /\ paper = NewPaper
    /\ counts = NoCounts
    /\ processed_papers = {}
    /\ call = NoCall
    /\ createPc = "enqueue"
    /\ cancelPc = "idle"
    /\ ctask = NewReviewTask
    /\ job = NewJob
    /\ lpapers = [d \in Papers |-> NewLPaper]
    /\ cache = [d \in Papers |-> FALSE]
    /\ jpc = "idle"
    /\ jmem = NewJob
    /\ extracted_papers = {}
    /\ lqueue = 0
    /\ lpc = "idle"
    /\ lmem = NewJob
    /\ cjob = NewJob
    /\ NoSharedDocument
    /\ NoSubmissions
    /\ NoInvocation
    /\ NoFetch
    /\ reviews = 0
    /\ updated_at = "recent"

Literature ==
    \/ create
    \/ cancel
    \/ generate_review_task
    \/ worker_lost
    \/ worker_terminated
    \/ worker_discard

\* tasks.py line 287.
TIMED_OUT == "Job timed out or worker stopped unexpectedly"

\* Two hours go by without a save of the job: its last update is now before
\* the threshold of tasks.py line 281.  The age is followed from the save
\* that sets processing (line 126), the only status the filter looks at.  No
\* task runs that long (settings.py line 99 ends it after 30 minutes): the
\* two hours go by while the job waits in a queue.
two_hours_pass ==
    /\ app = "litapp"
    /\ updated_at = "recent"
    /\ jpc = "idle" /\ lpc = "idle"
    /\ updated_at' = "old"
    /\ UNCHANGED <<app, docVars, quotaVars, retryVars, fetchVars, reviews, literatureVars, litappVars, queue, revoked, retries,
                   events, papers_data, idx, call, createPc, cancelPc>>

\* tasks.py line 282: the rows the filter selects.
IsStale(j, age) == j.status = "processing" /\ age = "old"

\* tasks.py lines 281-291: one UPDATE statement sets the three columns of the
\* rows that are processing and were last updated before the threshold; with
\* no such row nothing is written.
cleanup_stale_jobs_task ==
    /\ app = "litapp"
    /\ IsStale(job, updated_at)
    /\ job' = [job EXCEPT !.status = "failed",
                          !.error_message = TIMED_OUT,
                          !.completed_at = "now"]
    /\ UNCHANGED <<app, docVars, quotaVars, retryVars, fetchVars, reviews, updated_at, literatureVars, queue, revoked, retries, events,
                   papers_data, idx, call, createPc, cancelPc, lpapers, cache,
                   jpc, jmem, extracted_papers, lqueue, lpc, lmem, cjob>>

Litapp ==
    \/ submit_enqueue
    \/ CancelJob
    \/ generate_literature_review_job
    \/ glrj_lost
    \/ glrj_terminated
    \/ glrj_discard
    \/ llm_generation_task
    \/ llm_lost
    \/ two_hours_pass
    \/ cleanup_stale_jobs_task

Next == Literature \/ Litapp

Spec == Init /\ [][Next]_vars

\* The same system under fair scheduling: a worker that has a task goes on
\* with it, a free worker takes the message that waits in the queue
\* (settings.py lines 100-103), and a view that has begun to answer a request
\* ends it.  Nothing makes a user cancel, a worker process die, or two hours
\* pass.
Fairness ==
    /\ WF_vars(generate_review_task)
    /\ WF_vars(worker_discard)
    /\ WF_vars(create)
    /\ WF_vars(cancel_save)
    /\ WF_vars(submit_enqueue)
    /\ WF_vars(generate_literature_review_job)
    /\ WF_vars(glrj_discard)
    /\ WF_vars(llm_generation_task)
    /\ WF_vars(CancelJob_save)

FairSpec == Init /\ [][Next]_vars /\ Fairness

\* ------------------------------------------- two jobs, one shared document
\* Paper rows are shared by openalex_id: jobs whose searches return the same
\* work load, change and save the same row, each from its own in-memory copy.
\* The document is the first row; each job goes once through the body of its
\* loop for it.
singleJobVars == <<queue, revoked, retries, events, papers_data, idx, createPc,
                   cancelPc, task, wpc, wtask, paper, counts, processed_papers,
                   ctask, job, jpc, jmem, extracted_papers, lqueue, lpc, lmem,
                   cjob>>
docFrame == <<app, singleJobVars, quotaVars, retryVars, fetchVars, reviews, updated_at,
              cached0>>

\* No single job is followed.
NoSingleJob ==
    /\ task = NewReviewTask
    /\ queue = 0
    /\ revoked = FALSE
    /\ retries = 0
    /\ events = 0
    /\ wpc = "idle"
    /\ wtask = NewReviewTask
    /\ papers_data = 0
    /\ idx = 0
    /\ paper = NewPaper
    /\ counts = NoCounts
    /\ processed_papers = {}
    /\ call = NoCall
    /\ createPc = "enqueue"
    /\ cancelPc = "idle"
    /\ ctask = NewReviewTask
    /\ job = NewJob
    /\ jpc = "idle"
    /\ jmem = NewJob
    /\ extracted_papers = {}
    /\ lqueue = 0
    /\ lpc = "idle"
    /\ lmem = NewJob
    /\ cjob = NewJob

\* literature/tasks.py line 155: every download writes a file of its own,
\* named by a fresh uuid.
pdf_filename == <<"pdfs/uuid-1.pdf", "pdfs/uuid-2.pdf", "pdfs/uuid-3.pdf">>

\* The rows earlier jobs can have left: nothing, a path, a path and a text, and
\* these with a summary or a sentinel.
LeftByEarlierJobs ==
    {NewPaper,
     [pdf_path |-> "pdfs/uuid-0.pdf", extracted_text |-> NULL, summary |-> NULL],
     [pdf_path |-> "pdfs/uuid-0.pdf", extracted_text |-> "text", summary |-> NULL],
     [pdf_path |-> "pdfs/uuid-0.pdf", extracted_text |-> "text",
      summary |-> SUMMARY_VALID],
     [pdf_path |-> "pdfs/uuid-0.pdf", extracted_text |-> "text",
      summary |-> SUMMARY_SENTINEL]}

\* litapp: text and cache reference are saved together (tasks.py lines 98-101).
LLeftByEarlierJobs == {NewLPaper, [text |-> "text", cached_file |-> "file"]}

\* The document of the first row: whatever earlier jobs left of it.  In litapp
\* the file can be in the cache directory without the row having a text (too
\* little text extracted) and the row can have its text without the file
\* (clean_old_cached_pdfs).
InitDocs ==
    /\ app \in {"literature", "litapp"}
    /\ NoSingleJob
    /\ NoSubmissions
    /\ NoInvocation
    /\ NoFetch
    /\ reviews = 0
    /\ updated_at = "recent"
    /\ dpc = [j \in Jobs |-> "idle"]
    /\ dpaper = [j \in Jobs |-> NewPaper]
    /\ downloads = {}
    /\ \E r \in LeftByEarlierJobs, lr \in LLeftByEarlierJobs, file \in BOOLEAN :
          /\ papers = [d \in Papers |->
                         IF app = "literature" /\ d = 1 THEN r ELSE NewPaper]
          /\ lpapers = [d \in Papers |->
                          IF app = "litapp" /\ d = 1 THEN lr ELSE NewLPaper]
          /\ cache = [d \in Papers |-> app = "litapp" /\ d = 1 /\ file]
          /\ app = "literature" => (lr = NewLPaper /\ ~file)
          /\ app = "litapp" => r = NewPaper
    /\ cached0 = IF app = "literature" THEN papers[1].pdf_path # NULL
                 ELSE AlreadyProcessed(lpapers[1]) \/ cache[1]

At(j, pc) == dpc[j] = pc
Goto(j, pc) == dpc' = [dpc EXCEPT ![j] = pc]

\* Mutant: the job starts from the defaults of a new row, whatever the row
\* holds.
shared_get_or_create_as_created ==
    /\ app = "literature"
    /\ \E j \in Jobs :
          /\ At(j, "idle")
          /\ dpaper' = [dpaper EXCEPT ![j] = NewPaper]
          /\ Goto(j, "metadata")
    /\ call' = NoCall
    /\ UNCHANGED <<docFrame, papers, lpapers, cache, downloads>>

\* literature/tasks.py lines 129-138: the job loads the row.
shared_get_or_create ==
    /\ app = "literature"
    /\ \E j \in Jobs :
          /\ At(j, "idle")
          /\ dpaper' = [dpaper EXCEPT ![j] = papers[1]]
          /\ Goto(j, "metadata")
    /\ call' = NoCall
    /\ UNCHANGED <<docFrame, papers, lpapers, cache, downloads>>

\* lines 141-146: the metadata are refreshed and the whole row is saved from
\* the job's copy.
shared_save_metadata ==
    /\ app = "literature"
    /\ \E j \in Jobs :
          /\ At(j, "metadata")
          /\ papers' = [papers EXCEPT ![1] = dpaper[j]]
          /\ Goto(j, "download")
    /\ call' = NoCall
    /\ UNCHANGED <<docFrame, dpaper, lpapers, cache, downloads>>

\* lines 151-161: the guard reads the job's copy; the PDF is fetched, written
\* under a fresh name, and the row saved from the copy.
shared_download ==
    /\ app = "literature"
    /\ \E j \in Jobs :
          /\ At(j, "download")
          /\ NeedsDownload(dpaper[j], TRUE)
          /\ dpaper' = [dpaper EXCEPT ![j].pdf_path = pdf_filename[j]]
          /\ papers' = [papers EXCEPT ![1] = dpaper'[j]]
          /\ downloads' = downloads \cup {j}
          /\ Goto(j, "extract")
    /\ call' = Call("download", 1)
    /\ UNCHANGED <<docFrame, lpapers, cache>>

\* lines 151-166: the fetch fails.
shared_download_fail ==
    /\ app = "literature"
    /\ \E j \in Jobs :
          /\ At(j, "download")
          /\ NeedsDownload(dpaper[j], TRUE)
          /\ downloads' = downloads \cup {j}
          /\ Goto(j, "extract")
    /\ call' = Call("download", 1)
    /\ UNCHANGED <<docFrame, dpaper, papers, lpapers, cache>>

\* line 151: the copy has a path.
shared_download_skip ==
    /\ app = "literature"
    /\ \E j \in Jobs :
          /\ At(j, "download")
          /\ ~NeedsDownload(dpaper[j], TRUE)
          /\ Goto(j, "extract")
    /\ call' = NoCall
    /\ UNCHANGED <<docFrame, dpaper, papers, lpapers, cache, downloads>>

\* lines 173-193: the text is extracted and the row saved from the copy.
shared_extract ==
    /\ app = "literature"
    /\ \E j \in Jobs :
          /\ At(j, "extract")
          /\ NeedsExtract(dpaper[j])
          /\ dpaper' = [dpaper EXCEPT ![j].extracted_text = "text"]
          /\ papers' = [papers EXCEPT ![1] = dpaper'[j]]
          /\ Goto(j, "summarize")
    /\ call' = Call("extract", 1)
    /\ UNCHANGED <<docFrame, lpapers, cache, downloads>>

\* lines 173-198: too little text, or the file cannot be read.
shared_extract_fail ==
    /\ app = "literature"
    /\ \E j \in Jobs :
          /\ At(j, "extract")
          /\ NeedsExtract(dpaper[j])
          /\ Goto(j, "summarize")
    /\ call' = Call("extract", 1)
    /\ UNCHANGED <<docFrame, dpaper, papers, lpapers, cache, downloads>>

\* line 173: no path, or a text already.
shared_extract_skip ==
    /\ app = "literature"
    /\ \E j \in Jobs :
          /\ At(j, "extract")
          /\ ~NeedsExtract(dpaper[j])
          /\ Goto(j, "summarize")
    /\ call' = NoCall
    /\ UNCHANGED <<docFrame, dpaper, papers, lpapers, cache, downloads>>

\* lines 204-245: the summary, or a sentinel, is put on the copy and the row
\* saved from it.
shared_summarize ==
    /\ app = "literature"
    /\ \E j \in Jobs, text \in {SUMMARY_VALID, SUMMARY_SENTINEL} :
          /\ At(j, "summarize")
          /\ NeedsSummary(dpaper[j])
          /\ dpaper' = [dpaper EXCEPT ![j].summary = text]
          /\ papers' = [papers EXCEPT ![1] = dpaper'[j]]
          /\ Goto(j, "done")
    /\ call' = Call("summarize", 1)
    /\ UNCHANGED <<docFrame, lpapers, cache, downloads>>

\* line 204: no text, or a summary already.
shared_summarize_skip ==
    /\ app = "literature"
    /\ \E j \in Jobs :
          /\ At(j, "summarize")
          /\ ~NeedsSummary(dpaper[j])
          /\ Goto(j, "done")
    /\ call' = NoCall
    /\ UNCHANGED <<docFrame, dpaper, papers, lpapers, cache, downloads>>

SharedLiterature ==
    \/ shared_get_or_create
    \/ shared_save_metadata
    \/ shared_download
    \/ shared_download_fail
    \/ shared_download_skip
    \/ shared_extract
    \/ shared_extract_fail
    \/ shared_extract_skip
    \/ shared_summarize
    \/ shared_summarize_skip

\* litapp/tasks.py lines 50-60: create_or_update_paper loads the row.
create_or_update_paper_load ==
    /\ app = "litapp"
    /\ \E j \in Jobs :
          /\ At(j, "idle")
          /\ dpaper' = [dpaper EXCEPT ![j] = lpapers[1]]
          /\ Goto(j, "metadata")
    /\ call' = NoCall
    /\ UNCHANGED <<docFrame, papers, lpapers, cache, downloads>>

\* lines 62-76: some metadata of the search record differ from the row's: the
\* whole row is saved from the copy.
create_or_update_paper_save ==
    /\ app = "litapp"
    /\ \E j \in Jobs :
          /\ At(j, "metadata")
          /\ lpapers' = [lpapers EXCEPT ![1] = dpaper[j]]
          /\ Goto(j, "process")
    /\ call' = NoCall
    /\ UNCHANGED <<docFrame, dpaper, papers, cache, downloads>>

\* lines 62-76: the metadata are those of the row: nothing is saved.
create_or_update_paper_same ==
    /\ app = "litapp"
    /\ \E j \in Jobs :
          /\ At(j, "metadata")
          /\ Goto(j, "process")
    /\ call' = NoCall
    /\ UNCHANGED <<docFrame, dpaper, papers, lpapers, cache, downloads>>

\* lines 89-90: the copy has text and cache reference.
process_pdf_already ==
    /\ app = "litapp"
    /\ \E j \in Jobs :
          /\ At(j, "process")
          /\ AlreadyProcessed(dpaper[j])
          /\ Goto(j, "done")
    /\ call' = NoCall
    /\ UNCHANGED <<docFrame, dpaper, papers, lpapers, cache, downloads>>

\* line 92, utils.py lines 84-91: the file is in the cache directory.
download_pdf_cached ==
    /\ app = "litapp"
    /\ \E j \in Jobs :
          /\ At(j, "process")
          /\ ~AlreadyProcessed(dpaper[j])
          /\ cache[1]
          /\ Goto(j, "extract")
    /\ call' = NoCall
    /\ UNCHANGED <<docFrame, dpaper, papers, lpapers, cache, downloads>>

\* line 92, utils.py lines 97-139: the PDF is fetched into the cache
\* directory, under the name its URL gives it.
download_pdf_fetch ==
    /\ app = "litapp"
    /\ \E j \in Jobs :
          /\ At(j, "process")
          /\ ~AlreadyProcessed(dpaper[j])
          /\ ~cache[1]
          /\ cache' = [cache EXCEPT ![1] = TRUE]
          /\ downloads' = downloads \cup {j}
          /\ Goto(j, "extract")
    /\ call' = Call("download", 1)
    /\ UNCHANGED <<docFrame, dpaper, papers, lpapers>>

\* lines 92-94, utils.py lines 141-160: the fetch fails.
download_pdf_fail ==
    /\ app = "litapp"
    /\ \E j \in Jobs :
          /\ At(j, "process")
          /\ ~AlreadyProcessed(dpaper[j])
          /\ ~cache[1]
          /\ downloads' = downloads \cup {j}
          /\ Goto(j, "done")
    /\ call' = Call("download", 1)
    /\ UNCHANGED <<docFrame, dpaper, papers, lpapers, cache>>

\* lines 96-102: text and cache reference are put on the copy and the row is
\* saved from it.
process_pdf_extract ==
    /\ app = "litapp"
    /\ \E j \in Jobs :
          /\ At(j, "extract")
          /\ dpaper' = [dpaper EXCEPT ![j] = [text |-> "text",
                                              cached_file |-> "file"]]
          /\ lpapers' = [lpapers EXCEPT ![1] = dpaper'[j]]
          /\ Goto(j, "done")
    /\ call' = Call("extract", 1)
    /\ UNCHANGED <<docFrame, papers, cache, downloads>>

\* lines 96-104: too little text.
process_pdf_extract_fail ==
    /\ app = "litapp"
    /\ \E j \in Jobs :
          /\ At(j, "extract")
          /\ Goto(j, "done")
    /\ call' = Call("extract", 1)
    /\ UNCHANGED <<docFrame, dpaper, papers, lpapers, cache, downloads>>

SharedLitapp ==
    \/ create_or_update_paper_load
    \/ create_or_update_paper_save
    \/ create_or_update_paper_same
    \/ process_pdf_already
    \/ download_pdf_cached
    \/ download_pdf_fetch
    \/ download_pdf_fail
    \/ process_pdf_extract
    \/ process_pdf_extract_fail

NextDocs == SharedLiterature \/ SharedLitapp

SpecDocs == InitDocs /\ [][NextDocs]_vars

\* -------------------------------------------- the submissions of one user
\* Requests of one user are served at the same time.  `active' counts the
\* user's rows with status pending or processing, `tasks' the first tasks
\* enqueued for them.
quotaFrame == <<app, singleJobVars, papers, lpapers, cache, docVars, retryVars,
                fetchVars, reviews, updated_at>>

InitQuota ==
    /\ app \in {"literature", "litapp"}
    /\ NoSingleJob
    /\ NoSharedDocument
    /\ NoSubmissions
    /\ NoInvocation
    /\ NoFetch
    /\ reviews = 0
    /\ updated_at = "recent"
    /\ papers = [d \in Papers |-> NewPaper]
    /\ lpapers = [d \in Papers |-> NewLPaper]
    /\ cache = [d \in Papers |-> FALSE]

Answer(r, pc) == rpc' = [rpc EXCEPT ![r] = pc]

\* litapp/views.py lines 44-49 (services.py lines 16-19): the count of the
\* user's pending and processing jobs.
TooManyPending == active >= MAX_PENDING_JOBS

\* litapp/views.py lines 44-56 (services.py lines 16-20): the count is at the
\* limit: the request is answered 429.
post_reject ==
    /\ app = "litapp"
    /\ \E r \in Requests :
          /\ rpc[r] = "idle"
          /\ TooManyPending
          /\ Answer(r, "rejected")
    /\ call' = Call("429", 0)
    /\ UNCHANGED <<quotaFrame, active, tasks>>

\* lines 44-49: the count is below the limit: the request goes on.
post_count ==
    /\ app = "litapp"
    /\ \E r \in Requests :
          /\ rpc[r] = "idle"
          /\ ~TooManyPending
          /\ Answer(r, "create")
    /\ call' = NoCall
    /\ UNCHANGED <<quotaFrame, active, tasks>>

\* lines 58-77 (services.py lines 22-28): the job is created pending.
post_create ==
    /\ app = "litapp"
    /\ \E r \in Requests :
          /\ rpc[r] = "create"
          /\ Answer(r, "enqueue")
    /\ active' = active + 1
    /\ call' = NoCall
    /\ UNCHANGED <<quotaFrame, tasks>>

\* lines 80-103 (services.py lines 30-35): the first task is enqueued and the
\* request answered 201.
post_enqueue ==
    /\ app = "litapp"
    /\ \E r \in Requests :
          /\ rpc[r] = "enqueue"
          /\ Answer(r, "accepted")
    /\ tasks' = tasks + 1
    /\ call' = Call("201", 0)
    /\ UNCHANGED <<quotaFrame, active>>

\* literature/views.py lines 26-35: the row is created pending; nothing is
\* counted.
viewset_create ==
    /\ app = "literature"
    /\ \E r \in Requests :
          /\ rpc[r] = "idle"
          /\ Answer(r, "enqueue")
    /\ active' = active + 1
    /\ call' = NoCall
    /\ UNCHANGED <<quotaFrame, tasks>>

\* literature/views.py lines 38-46: the task is enqueued, the request answered
\* 201.
viewset_enqueue ==
    /\ app = "literature"
    /\ \E r \in Requests :
          /\ rpc[r] = "enqueue"
          /\ Answer(r, "accepted")
    /\ tasks' = tasks + 1
    /\ call' = Call("201", 0)
    /\ UNCHANGED <<quotaFrame, active>>

\* One of the user's jobs reaches a terminal status (its worker ends, or it
\* is cancelled).
job_ends ==
    /\ active > 0
    /\ active' = active - 1
    /\ call' = NoCall
    /\ UNCHANGED <<quotaFrame, rpc, tasks>>

NextQuota ==
    \/ post_reject
    \/ post_count
    \/ post_create
    \/ post_enqueue
    \/ viewset_create
    \/ viewset_enqueue
    \/ job_ends

SpecQuota == InitQuota /\ [][NextQuota]_vars

\* ------------------------------------- one litapp job, enqueued repeatedly
\* The job's first task is enqueued by the submission and again by the
\* retry_failed_jobs command; any worker of the pool takes a message.
retryFrame == <<app, queue, revoked, retries, papers_data, idx, createPc,
                cancelPc, literatureVars, lpapers, cache, jpc, jmem,
                extracted_papers, lqueue, lpc, lmem, cjob, docVars, quotaVars,
                fetchVars, reviews, updated_at>>

\* The ids apply_async generates when it is given none
\* (cleanup_old_pdfs.py lines 45 and 77).
GeneratedIds == <<"celery-1", "celery-2", "celery-3", "celery-4">>

\* litapp/views.py lines 58-77: the job exists, pending, with the id the view
\* has generated for its first task.
InitRetry ==
    /\ app = "litapp"
    /\ NoSingleJob
    /\ NoSharedDocument
    /\ NoSubmissions
    /\ NoInvocation
    /\ NoFetch
    /\ reviews = 0
    /\ updated_at = "recent"
    /\ papers = [d \in Papers |-> NewPaper]
    /\ lpapers = [d \in Papers |-> NewLPaper]
    /\ cache = [d \in Papers |-> FALSE]

Executing == {w \in Workers : running[w] # NULL}

\* litapp/views.py lines 80-84: the first task is enqueued under the stored
\* id.
post_apply_async ==
    /\ job.status = "pending" /\ events = 0
    /\ messages = {} /\ Executing = {} /\ revokedIds = {}
    /\ messages' = messages \cup {job.celery_task_id}
    /\ call' = Call("201", 0)
    /\ UNCHANGED <<retryFrame, job, events, running, revokedIds>>

\* litapp/tasks.py lines 117-126: a worker takes a message; under the row
\* lock it stores its id if the row has none and saves the job processing.
worker_start ==
    /\ \E w \in Workers, m \in messages :
          /\ running[w] = NULL
          /\ m \notin revokedIds
          /\ messages' = messages \ {m}
          /\ running' = [running EXCEPT ![w] = m]
          /\ job' = [job EXCEPT
                       !.celery_task_id = IF @ = NULL THEN m ELSE @,
                       !.status = "processing",
                       !.result_text =
                           "Fetching papers and extracting full texts..."]
    /\ call' = NoCall
    /\ UNCHANGED <<retryFrame, events, revokedIds>>

\* A revoked message is discarded by the worker that receives it.
worker_discards ==
    /\ \E m \in messages :
          /\ m \in revokedIds
          /\ messages' = messages \ {m}
    /\ call' = NoCall
    /\ UNCHANGED <<retryFrame, job, events, running, revokedIds>>

\* tasks.py lines 131-146, 156-162: the search or every extraction fails; the
\* handler saves the job failed and the task returns.
worker_fails ==
    /\ \E w \in Workers :
          /\ running[w] # NULL
          /\ running' = [running EXCEPT ![w] = NULL]
    /\ job' = [job EXCEPT !.status = "failed",
                          !.error_message = "No papers found",
                          !.result_text =
                              "Fetching papers and extracting full texts..."]
    /\ call' = Call("search", 0)
    /\ UNCHANGED <<retryFrame, events, messages, revokedIds>>

\* tasks.py lines 148-154: the generation task is queued and the task returns.
worker_returns ==
    /\ \E w \in Workers :
          /\ running[w] # NULL
          /\ running' = [running EXCEPT ![w] = NULL]
    /\ call' = NoCall
    /\ UNCHANGED <<retryFrame, job, events, messages, revokedIds>>

\* CELERY_TASK_ACKS_LATE with CELERY_TASK_REJECT_ON_WORKER_LOST: the message
\* of a lost worker is delivered again.
worker_is_lost ==
    /\ events < MaxCommands
    /\ events' = events + 1
    /\ \E w \in Workers :
          /\ running[w] # NULL
          /\ messages' = messages \cup {running[w]}
          /\ running' = [running EXCEPT ![w] = NULL]
    /\ call' = NoCall
    /\ UNCHANGED <<retryFrame, job, revokedIds>>

\* revoke(terminate=True, signal="SIGKILL") reaches a worker executing a
\* revoked id.
worker_is_terminated ==
    /\ \E w \in Workers :
          /\ running[w] # NULL
          /\ running[w] \in revokedIds
          /\ running' = [running EXCEPT ![w] = NULL]
    /\ call' = NoCall
    /\ UNCHANGED <<retryFrame, job, events, messages, revokedIds>>

\* litapp/views.py lines 243-259: a pending or processing job is cancelled:
\* the stored id is revoked and the job saved failed.
cancel_job ==
    /\ events < MaxCommands
    /\ events' = events + 1
    /\ JobCancelable(job.status)
    /\ revokedIds' = IF job.celery_task_id # NULL
                     THEN revokedIds \cup {job.celery_task_id}
                     ELSE revokedIds
    /\ job' = [job EXCEPT !.status = "failed",
                          !.error_message = "Cancelled by user",
                          !.completed_at = "now"]
    /\ call' = Call("cancel accepted, revoke", 0)
    /\ UNCHANGED <<retryFrame, messages, running>>

\* cleanup_old_pdfs.py lines 26-87 (the retry_failed_jobs command): a failed
\* job is saved pending without error and its first task enqueued, under an
\* id Celery generates.
retry_failed_job ==
    /\ events < MaxCommands
    /\ events' = events + 1
    /\ job.status = "failed"
    /\ job' = [job EXCEPT !.status = "pending", !.error_message = NULL]
    /\ messages' = messages \cup {GeneratedIds[events']}
    /\ call' = NoCall
    /\ UNCHANGED <<retryFrame, running, revokedIds>>

NextRetry ==
    \/ post_apply_async
    \/ worker_start
    \/ worker_discards
    \/ worker_fails
    \/ worker_returns
    \/ worker_is_lost
    \/ worker_is_terminated
    \/ cancel_job
    \/ retry_failed_job

SpecRetry == InitRetry /\ [][NextRetry]_vars

\* ------------------------------------------------- one download of a PDF
\* One call of litapp's download_pdf, or one pass through the download block
\* of generate_review_task, for a URL and a server of any kind.  Sizes are in
\* bytes.
fetchFrame == <<app, call, singleJobVars, papers, lpapers, cache, docVars,
                quotaVars, retryVars, reviews,
                updated_at>>

\* utils.py line 124: 50 * 1024 * 1024.
MAX_PDF_BYTES == 52428800
\* utils.py line 89: a cached file counts when it has more than 1024 bytes.
MIN_CACHED_BYTES == 1024
\* literature/tasks.py line 154: len(pdf_resp.content) > 50000.
MIN_CONTENT_BYTES == 50000

\* The URLs a search result can carry, as urlparse reads them.
Urls ==
    {EmptyUrl,
     [scheme |-> "http", netloc |-> "host"],
     [scheme |-> "https", netloc |-> "host"],
     [scheme |-> "http", netloc |-> ""],
     [scheme |-> "ftp", netloc |-> "host"],
     [scheme |-> "file", netloc |-> ""]}

\* The sizes of bodies, of announced lengths and of files: around each
\* threshold of the code.
Sizes == {MIN_CACHED_BYTES, MIN_CACHED_BYTES + 1,
          MIN_CONTENT_BYTES, MIN_CONTENT_BYTES + 1,
          MAX_PDF_BYTES, MAX_PDF_BYTES + 1}

\* The files an earlier call can have left at the path of the URL: a broken
\* one and a good one.
CachedBefore ==
    {NoFile, [exists |-> TRUE, size |-> MIN_CACHED_BYTES],
     [exists |-> TRUE, size |-> MIN_CONTENT_BYTES + 1]}

\* utils.py lines 50-65.
is_valid_pdf_url(u) ==
    /\ u # EmptyUrl
    /\ u.scheme \in {"http", "https"}
    /\ u.netloc # ""

InitFetch ==
    /\ app \in {"literature", "litapp"}
    /\ NoSingleJob
    /\ NoSharedDocument
    /\ NoSubmissions
    /\ NoInvocation
    /\ papers = [d \in Papers |-> NewPaper]
    /\ lpapers = [d \in Papers |-> NewLPaper]
    /\ cache = [d \in Papers |-> FALSE]
    /\ reviews = 0
    /\ updated_at = "recent"
    /\ fpc = "call"
    /\ url \in Urls
    /\ cached_pdf \in (IF app = "litapp" THEN CachedBefore ELSE {NoFile})
    /\ response = NoResponse
    /\ returned = "nothing"
    /\ NewSession
    /\ callers = [c \in Callers |-> NewCaller]

\* The call is over with this value.
Returns(value) ==
    /\ returned' = value
    /\ fpc' = "done"

\* utils.py lines 80-82: a URL that is not valid is answered with None.
download_pdf_invalid ==
    /\ app = "litapp" /\ fpc = "call"
    /\ ~is_valid_pdf_url(url)
    /\ Returns("None")
    /\ UNCHANGED <<fetchFrame, callers, total, sends, status_code, url, cached_pdf, response>>

\* utils.py lines 84-91: the file of the URL is in the cache.
download_pdf_hit ==
    /\ app = "litapp" /\ fpc = "call"
    /\ is_valid_pdf_url(url)
    /\ cached_pdf.exists /\ cached_pdf.size > MIN_CACHED_BYTES
    /\ Returns("cache_path")
    /\ UNCHANGED <<fetchFrame, callers, total, sends, status_code, url, cached_pdf, response>>

\* utils.py lines 87-95: a file of at most 1024 bytes is removed; with no
\* usable file the server is asked.
download_pdf_miss ==
    /\ app = "litapp" /\ fpc = "call"
    /\ is_valid_pdf_url(url)
    /\ ~(cached_pdf.exists /\ cached_pdf.size > MIN_CACHED_BYTES)
    /\ cached_pdf' = NoFile
    /\ fpc' = "get"
    /\ UNCHANGED <<fetchFrame, callers, total, sends, status_code, url, response, returned>>

\* The statuses a server answers with.
StatusCodes == {200, 404, 429, 500, 501}

\* urllib3 Retry.increment under utils.py lines 28-33: a failure the strategy
\* retries takes one from total; the request is sent again while total is not
\* below 0, and the error is raised to the except clauses of lines 142-151
\* when it is.
Retry_increment ==
    /\ total' = total - 1
    /\ IF total' < 0
       THEN Returns("None")
       ELSE fpc' = "get" /\ returned' = returned

\* utils.py lines 106-111, 142-160: the request times out or the connection
\* fails; there is no file to clean up.
download_pdf_get_fails ==
    /\ app = "litapp" /\ fpc = "get"
    /\ sends' = sends + 1
    /\ status_code' = 0
    /\ Retry_increment
    /\ UNCHANGED <<fetchFrame, callers, url, cached_pdf, response>>

\* utils.py lines 28-33, 106-111: an answer with a status of the forcelist is
\* a failure the strategy retries.
download_pdf_get_forcelist ==
    /\ app = "litapp" /\ fpc = "get"
    /\ sends' = sends + 1
    /\ \E s \in StatusCodes \cap status_forcelist : status_code' = s
    /\ Retry_increment
    /\ UNCHANGED <<fetchFrame, callers, url, cached_pdf, response>>

\* utils.py lines 112, 144-145, 153-160: raise_for_status raises for any other
\* status from 400 on.
download_pdf_get_http_error ==
    /\ app = "litapp" /\ fpc = "get"
    /\ sends' = sends + 1
    /\ \E s \in StatusCodes \ status_forcelist :
          s >= 400 /\ status_code' = s
    /\ Returns("None")
    /\ UNCHANGED <<fetchFrame, callers, url, cached_pdf, response, total>>

\* utils.py lines 106-112: the server answers, with or without a
\* Content-Length header, which need not be the length of the body.
download_pdf_get ==
    /\ app = "litapp" /\ fpc = "get"
    /\ sends' = sends + 1
    /\ status_code' = 200
    /\ \E has_length \in BOOLEAN, content_length \in Sizes, body \in Sizes :
          /\ ~has_length => content_length = MIN_CACHED_BYTES
          /\ response' = [has_length |-> has_length,
                          content_length |-> IF has_length THEN content_length
                                             ELSE 0,
                          body |-> body]
    /\ fpc' = "size"
    /\ UNCHANGED <<fetchFrame, callers, url, cached_pdf, returned, total>>

\* utils.py line 124.
TooLarge(r) == r.has_length /\ r.content_length > MAX_PDF_BYTES

\* utils.py lines 123-126: the announced length is above the ceiling.
download_pdf_too_large ==
    /\ app = "litapp" /\ fpc = "size"
    /\ TooLarge(response)
    /\ Returns("None")
    /\ UNCHANGED <<fetchFrame, callers, total, sends, status_code, url, cached_pdf, response>>

\* utils.py lines 128-140: the body is written to the path, chunk by chunk
\* until the server ends it.
download_pdf_write ==
    /\ app = "litapp" /\ fpc = "size"
    /\ ~TooLarge(response)
    /\ cached_pdf' = [exists |-> TRUE, size |-> response.body]
    /\ Returns("cache_path")
    /\ UNCHANGED <<fetchFrame, callers, total, sends, status_code, url, response>>

\* utils.py lines 128-132, 142-160: reading or writing a chunk fails; the
\* partial file is removed.
download_pdf_write_fails ==
    /\ app = "litapp" /\ fpc = "size"
    /\ ~TooLarge(response)
    /\ cached_pdf' = NoFile
    /\ Returns("None")
    /\ UNCHANGED <<fetchFrame, callers, total, sends, status_code, url, response>>

\* literature/tasks.py line 151: a paper without a URL is not downloaded.
grt_no_pdf_url ==
    /\ app = "literature" /\ fpc = "call"
    /\ url = EmptyUrl
    /\ Returns("None")
    /\ UNCHANGED <<fetchFrame, callers, total, sends, status_code, url, cached_pdf, response>>

\* literature/tasks.py lines 153, 162-165: requests.get raises (a scheme it
\* has no adapter for, no host, a timeout): nothing is written.
grt_requests_get_raises ==
    /\ app = "literature" /\ fpc = "call"
    /\ url # EmptyUrl
    /\ Returns("None")
    /\ UNCHANGED <<fetchFrame, callers, total, sends, status_code, url, cached_pdf, response>>

\* literature/tasks.py lines 153-160: the server answers; a body of more than
\* 50000 bytes with status 200 is written to a new file.
grt_requests_get ==
    /\ app = "literature" /\ fpc = "call"
    /\ is_valid_pdf_url(url)
    /\ \E ok \in BOOLEAN, body \in Sizes :
          /\ response' = [has_length |-> FALSE, content_length |-> 0,
                          body |-> body]
          /\ IF ok /\ body > MIN_CONTENT_BYTES
             THEN /\ cached_pdf' = [exists |-> TRUE, size |-> body]
                  /\ Returns("pdf_path")
             ELSE /\ cached_pdf' = cached_pdf
                  /\ Returns("None")
    /\ UNCHANGED <<fetchFrame, callers, total, sends, status_code, url>>

NextFetch ==
    \/ download_pdf_invalid
    \/ download_pdf_hit
    \/ download_pdf_miss
    \/ download_pdf_get_fails
    \/ download_pdf_get_forcelist
    \/ download_pdf_get_http_error
    \/ download_pdf_get
    \/ download_pdf_too_large
    \/ download_pdf_write
    \/ download_pdf_write_fails
    \/ grt_no_pdf_url
    \/ grt_requests_get_raises
    \/ grt_requests_get

SpecFetch == InitFetch /\ [][NextFetch]_vars

\* ---------------------------------------------------------------------------
\* download_pdf called by several jobs at once for the same URL: the calls
\* share the file at get_pdf_cache_path(pdf_url) (utils.py lines 42-47, 84).

\* utils.py line 130: iter_content(chunk_size=8192).
CHUNK_SIZE == 8192
\* The chunks of the body the server sends.
MaxChunks == 2
BodyBytes == MaxChunks * CHUNK_SIZE

concurrentFrame == <<fetchFrame, fpc, url, response, returned, total, sends,
                     status_code>>

\* The file at the path before the calls: none, a broken one, the complete
\* body of an earlier call.
ConcurrentCachedBefore ==
    {NoFile, [exists |-> TRUE, size |-> MIN_CACHED_BYTES],
     [exists |-> TRUE, size |-> BodyBytes]}

InitConcurrent ==
    /\ app = "litapp"
    /\ NoSingleJob
    /\ NoSharedDocument
    /\ NoSubmissions
    /\ NoInvocation
    /\ papers = [d \in Papers |-> NewPaper]
    /\ lpapers = [d \in Papers |-> NewLPaper]
    /\ cache = [d \in Papers |-> FALSE]
    /\ reviews = 0
    /\ updated_at = "recent"
    /\ fpc = "idle"
    /\ url = [scheme |-> "https", netloc |-> "host"]
    /\ cached_pdf \in ConcurrentCachedBefore
    /\ response = NoResponse
    /\ returned = "nothing"
    /\ NewSession
    /\ callers = [c \in Callers |-> [NewCaller EXCEPT !.pc = "call"]]

\* os.remove of the path: the name is gone; a call that has the file open
\* goes on writing to a file no path leads to.
Removed(cs) == [c \in Callers |-> [cs[c] EXCEPT !.linked = FALSE]]

\* utils.py lines 87-91: a file of more than 1024 bytes at the path is
\* returned as the cached PDF.
caller_hit(c) ==
    /\ callers[c].pc = "call"
    /\ cached_pdf.exists /\ cached_pdf.size > MIN_CACHED_BYTES
    /\ callers' = [callers EXCEPT ![c].pc = "done",
                                  ![c].returned = "cache_path"]
    /\ UNCHANGED <<concurrentFrame, cached_pdf>>

\* utils.py lines 87-95: a smaller file is removed; with no usable file the
\* server is asked.
caller_miss(c) ==
    /\ callers[c].pc = "call"
    /\ ~(cached_pdf.exists /\ cached_pdf.size > MIN_CACHED_BYTES)
    /\ cached_pdf' = NoFile
    /\ callers' = [IF cached_pdf.exists THEN Removed(callers) ELSE callers
                     EXCEPT ![c].pc = "get"]
    /\ UNCHANGED concurrentFrame

\* utils.py lines 106-126: the server answers with a body to write.
caller_get(c) ==
    /\ callers[c].pc = "get"
    /\ callers' = [callers EXCEPT ![c].pc = "open"]
    /\ UNCHANGED <<concurrentFrame, cached_pdf>>

\* utils.py lines 106-112, 142-151: the request fails.
caller_get_fails(c) ==
    /\ callers[c].pc = "get"
    /\ callers' = [callers EXCEPT ![c].pc = "cleanup"]
    /\ UNCHANGED <<concurrentFrame, cached_pdf>>

\* utils.py line 129: open(cache_path, "wb") creates the file, or empties the
\* one that is at the path, which another call may be writing.
caller_open(c) ==
    /\ callers[c].pc = "open"
    /\ cached_pdf' = [exists |-> TRUE, size |-> 0]
    /\ callers' = [callers EXCEPT ![c].pc = "write", ![c].linked = TRUE,
                                  ![c].written = 0]
    /\ UNCHANGED concurrentFrame

\* utils.py lines 130-132: one chunk is written at the position of this
\* call; after the last one the file is closed.
caller_write(c) ==
    /\ callers[c].pc = "write"
    /\ LET written == callers[c].written + 1
           bytes == written * CHUNK_SIZE
       IN  /\ cached_pdf' =
                 IF callers[c].linked /\ bytes > cached_pdf.size
                 THEN [cached_pdf EXCEPT !.size = bytes]
                 ELSE cached_pdf
           /\ callers' = [callers EXCEPT
                            ![c].written = written,
                            ![c].pc = IF written = MaxChunks THEN "getsize"
                                      ELSE "write"]
    /\ UNCHANGED concurrentFrame

\* utils.py lines 130-132, 142-151: reading or writing a chunk fails.
caller_write_fails(c) ==
    /\ callers[c].pc = "write"
    /\ callers' = [callers EXCEPT ![c].pc = "cleanup"]
    /\ UNCHANGED <<concurrentFrame, cached_pdf>>

\* utils.py lines 134-140: the size of the file at the path is read for the
\* log and the path returned; with no file at the path getsize raises an
\* OSError, which line 148 catches.
caller_return(c) ==
    /\ callers[c].pc = "getsize"
    /\ callers' = [callers EXCEPT
                     ![c].pc = IF cached_pdf.exists THEN "done" ELSE "cleanup",
                     ![c].returned = IF cached_pdf.exists THEN "cache_path"
                                     ELSE "nothing"]
    /\ UNCHANGED <<concurrentFrame, cached_pdf>>

\* utils.py lines 153-160: whatever is at the path is removed, and None
\* returned.
caller_cleanup(c) ==
    /\ callers[c].pc = "cleanup"
    /\ cached_pdf' = NoFile
    /\ callers' = [IF cached_pdf.exists THEN Removed(callers) ELSE callers
                     EXCEPT ![c].pc = "done", ![c].returned = "None"]
    /\ UNCHANGED concurrentFrame

NextConcurrent ==
    \E c \in Callers :
        \/ caller_hit(c)
        \/ caller_miss(c)
        \/ caller_get(c)
        \/ caller_get_fails(c)
        \/ caller_open(c)
        \/ caller_write(c)
        \/ caller_write_fails(c)
        \/ caller_return(c)
        \/ caller_cleanup(c)

SpecConcurrent == InitConcurrent /\ [][NextConcurrent]_vars

\* =========================================================== properties
Terminal == {"finished", "failed", "canceled"}
JobTerminal == {"completed", "failed"}

\* A step of generate_review_task inside one invocation.
WorkerStep == wpc # "idle" /\ wpc' # wpc

\* C1: once the job is persisted as canceled (the create view having answered
\* long before), no later write of the still running worker changes the
\* status, sets current_stage, result or progress.
C1_WorkerLeavesCanceledJob ==
    [][(app = "literature" /\ createPc = "done"
        /\ task.status = "canceled" /\ WorkerStep)
         => /\ task'.status = "canceled"
            /\ task'.current_stage = NULL
            /\ task'.result = task.result
            /\ task'.progress_percent = task.progress_percent]_vars

\* The persisted field a step of the given kind must find empty.
FieldOf(op, d) ==
    IF app = "literature"
    THEN CASE op = "download" -> papers[d].pdf_path
           [] op = "extract" -> papers[d].extracted_text
           [] op = "summarize" -> papers[d].summary
    ELSE CASE op = "download" -> lpapers[d].cached_file
           [] op = "extract" -> lpapers[d].text
           [] op = "summarize" -> NULL

\* C2: in every invocation, also one that follows a failed one, a download,
\* extraction or summary call is made for a document only when the
\* corresponding persisted field of the document is empty.
C2_NoWorkRedone ==
    [][\A d \in Papers : \A op \in {"download", "extract", "summarize"} :
          (call'.op = op /\ call'.paper = d) => FieldOf(op, d) = NULL]_vars

\* C2 witness: a later invocation has passed the download of the first
\* document without a call, because an earlier invocation stored its PDF.
C2_Witness ==
    /\ app = "literature"
    /\ wpc = "progress_downloaded" /\ idx = 1
    /\ paper.pdf_path # NULL
    /\ counts.download = 0
    /\ call = NoCall

\* C3: after the create view has answered, a terminal status is final, and
\* running is entered from pending only.
C3_TerminalIsFinal ==
    [][(app = "literature" /\ createPc = "done") =>
         /\ (task.status \in Terminal => task'.status = task.status)
         /\ (task'.status = "running" /\ task.status # "running"
               => task.status = "pending")]_vars

StageRank(stage) ==
    CASE stage = "searching_openalex" -> 1
      [] stage = "downloading_pdfs" -> 2
      [] stage = "extracting_text" -> 3
      [] stage = "summarizing_papers" -> 4
      [] stage = "generating_review" -> 5
      [] OTHER -> 0

\* C4: inside one invocation, while the job is running, the persisted
\* current_stage never moves back to an earlier stage.
C4_StageMovesForward ==
    [][(app = "literature" /\ WorkerStep /\ wpc' # "idle"
        /\ task.status = "running" /\ task'.status = "running"
        /\ task.current_stage # NULL /\ task'.current_stage # NULL)
         => StageRank(task'.current_stage) >= StageRank(task.current_stage)]_vars

\* C5: current_stage is non-null exactly when the status is running.
C5_StageIffRunning ==
    app = "literature" =>
        ((task.current_stage # NULL) <=> (task.status = "running"))

\* C6: a terminal job never has both a result and an error_message, and
\* never has neither.
C6_ExactlyOneOfResultAndError ==
    (app = "literature" /\ task.status \in Terminal)
        => /\ ~(task.result # NULL /\ task.error_message # NULL)
           /\ ~(task.result = NULL /\ task.error_message = NULL)

\* C6, first half alone: a terminal job never has both.
C6_NeverBothResultAndError ==
    (app = "literature" /\ task.status \in Terminal)
        => ~(task.result # NULL /\ task.error_message # NULL)

\* C7: after the create view has answered, the persisted progress_percent
\* never decreases while the job is not terminal.
C7_ProgressNeverDecreases ==
    [][(app = "literature" /\ createPc = "done"
        /\ task.status \notin Terminal /\ task'.status \notin Terminal)
         => task'.progress_percent >= task.progress_percent]_vars

\* C8: progress_percent is 100 exactly when the status is finished.
C8_HundredIffFinished ==
    app = "literature" =>
        ((task.progress_percent = PROGRESS_DONE * Scale)
            <=> (task.status = "finished"))

\* The step in which an accepted cancel request writes the row and answers.
CancelAnswered == cancelPc = "revoke" /\ cancelPc' = "idle"

Status == IF app = "literature" THEN task.status ELSE job.status
\* The job is pending or running (processing, in the litapp variant).
CanBeCanceled ==
    IF app = "literature" THEN task.status \in {"pending", "running"}
    ELSE job.status \in {"pending", "processing"}
\* The step in which a cancel request loads the row and tests its status.
CancelRequested ==
    /\ cancelPc = "idle" /\ events' = events + 1
    /\ (cancelPc' = "revoke" \/ call'.op = "cancel rejected")

\* C10: a cancel request goes on only when the status it reads is pending or
\* running (processing); on any other status it is rejected, writes nothing
\* and revokes nothing; and a revoke is only ever sent by an accepted request.
C10_CancelOnlyWhenActive ==
    [][/\ (CancelRequested /\ cancelPc' = "revoke") => CanBeCanceled
       /\ (CancelRequested /\ ~CanBeCanceled)
            => /\ call'.op = "cancel rejected"
               /\ cancelPc' = "idle"
               /\ UNCHANGED <<task, job, revoked, queue, papers, lpapers>>
       /\ (revoked' # revoked) => CancelAnswered]_vars

\* C10 witness: a request against a terminal job has been rejected.
C10_Witness ==
    /\ call.op = "cancel rejected"
    /\ Status \in Terminal \cup JobTerminal
    /\ ~revoked

\* The counters of a ReviewTask row.
Counters(t) ==
    <<t.papers_found, t.total_papers_target, t.papers_downloaded,
      t.papers_extracted, t.papers_summarized>>

\* The step on which the search of an invocation comes back without a work.
SearchFailed ==
    IF app = "literature"
    THEN wpc = "search" /\ wpc' = "raised" /\ call'.op = "search"
    ELSE jpc = "fetch" /\ jpc' = "idle" /\ call'.op = "search"

\* C11: when the search returns nothing the job is saved failed with an error
\* message (and with current_stage null where the row has one), the save
\* raises no counter and no target above what the invocation loaded, no
\* document row, cache entry or generation message is touched, and the
\* invocation makes no further call.
C11_EmptySearchFailsJob ==
    [][/\ SearchFailed =>
            IF app = "literature"
            THEN /\ task'.status = "failed"
                 /\ task'.current_stage = NULL
                 /\ task'.error_message # NULL
                 /\ Counters(task') = Counters(wtask)
                 /\ papers' = papers
            ELSE /\ job'.status = "failed"
                 /\ job'.error_message # NULL
                 /\ lpapers' = lpapers /\ cache' = cache /\ lqueue' = lqueue
       /\ (app = "literature" /\ wpc = "raised" /\ wpc' # wpc) =>
            (call'.op = "none" /\ task' = task /\ papers' = papers)]_vars

C11_Witness ==
    /\ app = "literature"
    /\ wpc = "raised" /\ call.op = "search"
    /\ task.status = "failed" /\ task.current_stage = NULL
    /\ task.error_message = "Failed to search OpenAlex"
    /\ Counters(task) = <<0, 0, 0, 0, 0>>

\* A save of the worker of generate_review_task (and not one of a view).
WorkerWrite ==
    /\ app = "literature"
    /\ wpc # "idle"
    /\ task' # task
    /\ createPc' = createPc /\ cancelPc' = cancelPc

\* C12: no step taken for one document marks the job failed; once a document
\* has a usable summary the only worker save that marks the job failed is the
\* one after a failed final generation call, and the save after a
\* successful one marks it finished with a result.
C12_PartialSuccessFinishes ==
    [][WorkerWrite =>
         /\ idx \in 1..papers_data => task'.status # "failed"
         /\ (processed_papers # {} /\ task'.status = "failed") =>
                (wpc = "generate" /\ call'.op = "generate")
         /\ (wpc = "generate" /\ task'.status # "failed") =>
                (task'.status = "finished" /\ task'.result # NULL)]_vars

C12_Witness ==
    /\ app = "literature"
    /\ task.status = "finished" /\ task.result # NULL
    /\ task.papers_found = 2
    /\ ~Collectable(papers[1].summary)
    /\ Collectable(papers[2].summary)
    /\ call.op = "generate"

\* C16: in every persisted state of a job each of papers_downloaded,
\* papers_extracted and papers_summarized is at most total_papers_target.
C16_CountersWithinTarget ==
    app = "literature" =>
        /\ task.papers_downloaded <= task.total_papers_target
        /\ task.papers_extracted <= task.total_papers_target
        /\ task.papers_summarized <= task.total_papers_target

\* C17: once the create view has answered, no save lowers papers_downloaded,
\* papers_extracted or papers_summarized, an invocation after a redelivery
\* included.
C17_CountersNeverDecrease ==
    [][(app = "literature" /\ createPc = "done") =>
          /\ task'.papers_downloaded >= task.papers_downloaded
          /\ task'.papers_extracted >= task.papers_extracted
          /\ task'.papers_summarized >= task.papers_summarized]_vars

ExceptionEscapes ==
    IF app = "literature"
    THEN wpc = "search" /\ call'.op = "search" /\ papers_data' = 0
    ELSE \/ jpc = "fetch" /\ call'.op = "search" /\ papers_data' = 0
         \/ /\ jpc = "paper" /\ idx > papers_data /\ extracted_papers = {}
            /\ jpc' = "idle" /\ job' # job
         \/ lpc = "generate" /\ call'.op = "generate" /\ job'.status # "completed"

\* The task ends by raising: generate_review_task is left in its raised
\* state, generate_literature_review_job would have to be, and
\* llm_generation_task is queued again while retries are left.
Reraised ==
    IF app = "literature" THEN wpc' = "raised"
    ELSE IF lpc = "generate" THEN retries < MaxRetries => lqueue' = lqueue + 1
    ELSE jpc' = "raised"

\* C19: when an exception escapes a task the job is saved failed with the
\* exception's text (and with current_stage null where the row has one) and
\* the task raises, so that the queue can invoke it again.
C19_FailureIsSavedAndReraised ==
    [][ExceptionEscapes =>
          /\ IF app = "literature"
             THEN /\ task'.status = "failed"
                  /\ task'.error_message # NULL
                  /\ task'.current_stage = NULL
             ELSE /\ job'.status = "failed"
                  /\ job'.error_message # NULL
          /\ Reraised]_vars

\* No document of the invocation has a summary line 252 would collect.
NoUsableSummary == \A d \in 1..papers_data : ~Collectable(papers[d].summary)

\* C20: a job that reaches the end of its documents with nothing usable is
\* saved failed with the message of that case and makes no generation call;
\* a generation call is only made when some document has a usable summary
\* (in litapp: a text); and a worker save of generate_review_task that marks
\* the job failed is the one of a failed search, of a failed generation call
\* or of this case.
C20_NothingUsableFailsJob ==
    [][IF app = "literature"
       THEN /\ (/\ wpc = "get_paper" /\ idx > papers_data
                 /\ wpc' \notin {"get_paper", "idle"}
                 /\ NoUsableSummary) =>
                   /\ task'.status = "failed"
                   /\ task'.error_message = "No papers could be processed"
                   /\ wpc' = "ack" /\ call'.op = "none"
            /\ call'.op = "generate" =>
                   \E d \in Papers : Collectable(papers[d].summary)
            /\ (WorkerWrite /\ task'.status = "failed") =>
                   \/ wpc \in {"search", "generate"}
                   \/ wpc = "get_paper" /\ idx > papers_data /\ processed_papers = {}
       ELSE /\ (/\ jpc = "paper" /\ idx > papers_data
                 /\ extracted_papers = {}
                 /\ jpc' = "idle" /\ job' # job) =>
                   /\ job'.status = "failed"
                   /\ job'.error_message = "No full text could be extracted from any paper"
                   /\ lqueue' = lqueue /\ call'.op = "none"
            /\ call'.op = "generate" =>
                   \E d \in Papers : lpapers[d].text # NULL]_vars

C20_Witness ==
    /\ app = "literature"
    /\ wpc = "ack" /\ call.op = "none"
    /\ task.status = "failed"
    /\ task.error_message = "No papers could be processed"
    /\ task.papers_found = 2
    /\ task.papers_downloaded = 2
    /\ task.result = NULL
    /\ \A d \in Papers : ~Collectable(papers[d].summary)

\* C13: when the shared document was cached before the concurrent jobs
\* loaded it, none of them asks the network for it.
C13_CachedIsNotDownloaded == cached0 => downloads = {}

C13_Witness ==
    /\ cached0
    /\ \A j \in Jobs : dpc[j] = "done"
    /\ downloads = {}
    /\ call.op # "download"

\* C14: with concurrent jobs on one document row, a populated cache
\* reference, text or summary of the row keeps its value at every save.
C14_PopulatedFieldsAreKept ==
    [][IF app = "literature"
       THEN \A f \in {"pdf_path", "extracted_text", "summary"} :
               papers[1][f] # NULL => papers'[1][f] = papers[1][f]
       ELSE \A f \in {"text", "cached_file"} :
               lpapers[1][f] # NULL => lpapers'[1][f] = lpapers[1][f]]_vars

\* C15: a user never has more than three pending or processing jobs,
\* concurrent submissions included, and a submission made while three exist
\* is refused without creating a job or enqueueing a task.
C15_AtMostThreeActiveJobs ==
    /\ [](active <= MAX_PENDING_JOBS)
    /\ [][\A r \in Requests :
            (rpc[r] = "idle" /\ rpc'[r] # "idle" /\ active >= MAX_PENDING_JOBS) =>
                (rpc'[r] = "rejected" /\ active' = active /\ tasks' = tasks)]_vars

\* C21: a failed summary call of generate_review_task leaves a sentinel on the
\* document's row, the job stays running and the loop goes on to the next
\* document; no summary call is made for a document whose row has a summary,
\* sentinel or not, in this invocation or a later one of the job.
C21_SummaryFailureIsLocal ==
    [][app = "literature" =>
         /\ (call'.op = "summarize" /\ call'.sentinel # NULL) =>
                /\ papers'[idx].summary = SUMMARY_SENTINEL
                /\ wtask'.status = "running"
                /\ wpc' = "progress_summarized"
         /\ call'.op = "summarize" =>
                (call'.paper = idx /\ papers[idx].summary = NULL)
         /\ (wpc = "progress_summarized" /\ wpc' \notin {wpc, "idle"}) =>
                (wpc' = "get_paper" /\ idx' = idx + 1 /\ wtask'.status = "running")]_vars

C21_Witness ==
    /\ app = "literature"
    /\ events > 0
    /\ wpc = "progress_summarized" /\ idx = 2
    /\ papers[1].summary = SUMMARY_SENTINEL
    /\ call.op = "summarize" /\ call.paper = 2 /\ call.sentinel = NULL
    /\ task.status = "running"

\* The documents of the job whose row holds a summary line 252 accepts.
UsableDocuments == {d \in Papers : Collectable(papers[d].summary)}

\* C22: what generate_review_task hands to the final generation call is
\* exactly the set of the job's documents with a usable summary, those
\* summarized by an earlier invocation included.
C22_GenerationInputIsAllUsable ==
    [][(app = "literature" /\ call'.op = "generate") =>
          processed_papers = UsableDocuments]_vars

\* C23: the save that makes a job processing leaves on the row the id of the
\* task that makes it, and at no time do two workers execute the first task
\* of one job.
C23_OneWorkerPerJob ==
    /\ [](Cardinality(Executing) <= 1)
    /\ [][\A w \in Workers :
            (running[w] = NULL /\ running'[w] # NULL) =>
                (job'.status = "processing" /\ job'.celery_task_id = running'[w])]_vars

\* C24: an extraction is attempted only for a document whose PDF is stored
\* (the row's pdf_path; in litapp the file download_pdf returned), a summary
\* call is made only for a document whose row has its text, and so no row
\* ever has a text without its PDF reference or a summary without its text.
C24_FetchExtractSummarizeInOrder ==
    /\ [](\A d \in Papers :
             /\ papers[d].extracted_text # NULL => papers[d].pdf_path # NULL
             /\ papers[d].summary # NULL => papers[d].extracted_text # NULL
             /\ lpapers[d].text # NULL => lpapers[d].cached_file # NULL)
    /\ [][IF app = "literature"
           THEN /\ call'.op = "extract" =>
                      (call'.paper = idx /\ papers[idx].pdf_path # NULL)
                /\ call'.op = "summarize" =>
                      (call'.paper = idx /\ papers[idx].extracted_text # NULL)
           ELSE /\ call'.op = "extract" => (call'.paper = idx /\ cache[idx])
                /\ call'.op = "generate" =>
                      \E d \in Papers : lpapers[d].text # NULL]_vars

C24_Witness ==
    /\ app = "literature"
    /\ call.op = "summarize" /\ call.paper = 2
    /\ papers[2].pdf_path # NULL
    /\ papers[2].extracted_text # NULL
    /\ papers[2].summary # NULL
    /\ papers[1].pdf_path # NULL /\ papers[1].extracted_text = NULL
    /\ papers[1].summary = NULL

\* The step in which the final generation call of the worker fails.
GenerationFails ==
    \/ app = "literature" /\ wpc = "generate" /\ call'.op = "generate"
         /\ task'.status # "finished"
    \/ app = "litapp" /\ lpc = "generate" /\ call'.op = "generate"
         /\ job'.status # "completed"

\* C25: the step in which the final generation call fails leaves the job
\* failed, with an error message and without a result, and puts no further
\* message for the job on a queue.
C25_GenerationFailureFailsJob ==
    [][GenerationFails =>
          IF app = "literature"
          THEN /\ task'.status = "failed"
               /\ task'.error_message # NULL
               /\ task'.result = NULL
               /\ queue' = queue
          ELSE /\ job'.status = "failed"
               /\ job'.error_message # NULL
               /\ job'.review = NULL
               /\ lqueue' = lqueue]_vars

\* The step in which litapp's CancelJob writes the cancellation to the row.
JobIsCanceled == app = "litapp" /\ cancelPc = "revoke" /\ cancelPc' = "idle"

\* C26: the views that give the result never give it for a job that is not
\* finished (completed in litapp); for a failed job they give the
\* error_message and no result, and for a canceled job neither.
C26_OnlyFinishedJobsExposeResult ==
    /\ [](IF app = "literature"
          THEN /\ task.status # "finished" => result(task).result = NULL
               /\ task.status = "failed" =>
                      /\ task.error_message # NULL
                      /\ result(task).error_message = task.error_message
               /\ task.status = "canceled" =>
                      result(task).error_message = NULL
          ELSE /\ job.status # "completed" =>
                      /\ GetCompletedReview_get(job).review = NULL
                      /\ CheckJobStatus_get(job).review_id = NULL
               /\ job.status = "failed" =>
                      /\ job.error_message # NULL
                      /\ GetCompletedReview_get(job).error_message
                             = job.error_message)
    /\ [][JobIsCanceled =>
             /\ GetCompletedReview_get(job').review = NULL
             /\ GetCompletedReview_get(job').error_message = NULL
             /\ CheckJobStatus_get(job').error_message = NULL]_vars

\* The smallest batch the generating stage could work with. The code has no
\* batch size; a claim about batches is read with this one.
BatchSize == 1

\* What the final generation call of the worker is given.
GenerationInput ==
    IF app = "literature" THEN processed_papers
    ELSE {d \in Papers : lpapers[d].text # NULL}

\* The step in which a generation call gives the final text of the job.
FinalTextIsProduced ==
    /\ call'.op = "generate"
    /\ \/ app = "literature" /\ wpc = "generate" /\ task'.status = "finished"
       \/ app = "litapp" /\ lpc = "generate" /\ job'.status = "completed"

\* C27: when the generating stage has more usable summaries than fit one
\* batch, the call that gives the final text is a folding call: the worker
\* has made its generation calls for the batches right before it.
C27_BatchesBeforeFolding ==
    [][(FinalTextIsProduced /\ Cardinality(GenerationInput) > BatchSize) =>
          call.op = "generate"]_vars

\* C28: a generation step fails the job only when the call itself has
\* failed; an answer below the length threshold is saved as a success, in
\* literature with the notice at its end.
C28_ShortTextIsDegradedSuccess ==
    [][/\ (app = "literature" /\ wpc = "generate" /\ call'.op = "generate") =>
             \/ /\ task'.status = "failed"
                /\ task'.error_message = "Failed to generate final review"
             \/ /\ task'.status = "finished"
                /\ task'.result \in
                      {"review", "review [Note: shorter than 3000 words]"}
       /\ (app = "litapp" /\ lpc = "generate" /\ call'.op = "generate") =>
             \/ /\ job'.status = "failed"
                /\ job'.error_message = "LLM task failed"
             \/ /\ job'.status = "completed"
                /\ job'.review # NULL]_vars

\* The smaller of two numbers.
Min(a, b) == IF a < b THEN a ELSE b

\* The percentage the formula of the progress model gives for the task t,
\* times Scale.
StatedProgress(t) ==
    Min(99 * Scale,
        (IF t.papers_found > 0 THEN 5 * Scale ELSE 0)
        + (25 * Scale * t.papers_downloaded) \div t.total_papers_target
        + (25 * Scale * t.papers_extracted) \div t.total_papers_target
        + (30 * Scale * t.papers_summarized) \div t.total_papers_target
        + (IF t.current_stage = "generating_review" THEN 15 * Scale ELSE 0))

\* The step in which the worker executes a call of update_task_progress.
ProgressIsUpdated ==
    /\ app = "literature"
    /\ wpc \in {"progress_found", "progress_downloaded", "progress_extracted",
                "progress_summarized", "progress_generate"}
    /\ wpc' \notin {wpc, "idle", "raised"}

\* C29: a call of update_task_progress for a task with a positive target
\* puts on the task and on its row the percentage of the stated formula,
\* and the weight of the generation is in it only in the call made after
\* the task has entered the generating stage.
C29_ProgressFollowsFormula ==
    [][(ProgressIsUpdated /\ wtask.total_papers_target > 0) =>
          /\ wtask'.progress_percent = StatedProgress(wtask)
          /\ task'.progress_percent = StatedProgress(wtask)
          /\ wtask.current_stage = "generating_review" <=>
                wpc = "progress_generate"]_vars

C29_Witness ==
    /\ app = "literature"
    /\ wpc = "generate"
    /\ wtask.total_papers_target = 2 /\ wtask.papers_found = 2
    /\ wtask.papers_downloaded = 2 /\ wtask.papers_extracted = 1
    /\ wtask.papers_summarized = 1
    /\ task.current_stage = "generating_review"
    /\ task.progress_percent = 72 * Scale + Scale \div 2

\* C30: a call for a URL that is not http or https returns None and leaves
\* the cache as it was, and no file above the ceiling of 50 MB is ever in
\* the cache, whatever the server announced.
C30_FetcherGuards ==
    /\ [](cached_pdf.exists => cached_pdf.size <= MAX_PDF_BYTES)
    /\ [](url.scheme \notin {"http", "https"} =>
             returned \in {"nothing", "None"})
    /\ [][url.scheme \notin {"http", "https"} =>
             cached_pdf' = cached_pdf]_vars

\* A step of generate_literature_review_job.
FirstTaskStep == app = "litapp" /\ jpc # "idle" /\ (jpc' # jpc \/ idx' # idx)

\* The step with which an invocation of generate_literature_review_job that
\* has gone through all its papers ends.
FirstTaskEnds ==
    app = "litapp" /\ jpc = "paper" /\ idx > papers_data /\ jpc' = "idle"

\* C32: generate_literature_review_job queues llm_generation_task only as
\* its last step, once, and only with papers that have their text; an
\* invocation that ends with no such paper queues nothing and leaves the
\* job failed with a message, and one that ends with some, and was not
\* revoked, has queued the task.
C32_ChainsOnceAndOnlyWithText ==
    [][/\ (FirstTaskStep /\ lqueue' # lqueue) =>
             /\ lqueue' = lqueue + 1
             /\ FirstTaskEnds
             /\ extracted_papers # {}
             /\ \A d \in extracted_papers : lpapers[d].text # NULL
       /\ (FirstTaskEnds /\ extracted_papers = {}) =>
             /\ lqueue' = lqueue
             /\ job'.status = "failed"
             /\ job'.error_message # NULL
       /\ (FirstTaskEnds /\ extracted_papers # {} /\ ~revoked) =>
             lqueue' = lqueue + 1]_vars

C32_Witness ==
    /\ app = "litapp"
    /\ jpc = "idle" /\ lqueue = 1 /\ lpc = "idle"
    /\ job.status = "processing"
    /\ lpapers[1].text = NULL /\ lpapers[2].text # NULL

\* C36: in litapp a job whose row says failed or completed keeps that status
\* for good, whoever has written it.
C36_LitappTerminalIsFinal ==
    [][(app = "litapp" /\ job.status \in JobTerminal) =>
          job'.status = job.status]_vars

\* C37: at most one LiteratureReview row is created for the job, and the
\* review a completed job refers to is never replaced by another.
C37_OneReviewPerJob ==
    /\ [](reviews <= 1)
    /\ [][(app = "litapp" /\ job.status = "completed" /\ job.review # NULL) =>
             job'.review = job.review]_vars

\* C39: no save loses what another writer has put on the ReviewTask row: an
\* id of the enqueued task, once on the row, stays there; no step takes
\* the row back to pending, or takes the stage of a running task away; and
\* when the create view has saved and the worker has ended, the row has the
\* id.
C39_NoLostUpdate ==
    /\ [][app = "literature" =>
             /\ task.celery_task_id # NULL =>
                    task'.celery_task_id = task.celery_task_id
             /\ task.status # "pending" => task'.status # "pending"
             /\ (task.current_stage # NULL /\ task'.status = "running") =>
                    task'.current_stage # NULL]_vars
    /\ [](app = "literature" /\ createPc = "done" /\ wpc = "idle" /\ queue = 0
            => task.celery_task_id = "task-id")

\* C40: in every persisted state of a job the counters form a funnel:
\* papers_summarized <= papers_extracted <= papers_downloaded <= papers_found,
\* also when a paper of the job was downloaded or extracted before.
C40_CountersFormFunnel ==
    app = "literature" =>
        /\ task.papers_summarized <= task.papers_extracted
        /\ task.papers_extracted <= task.papers_downloaded
        /\ task.papers_downloaded <= task.papers_found

\* A request of download_pdf is sent in this step.
RequestIsSent == app = "litapp" /\ sends' = sends + 1

\* C31: a fetch is sent again at most 3 times; when the last of these meets a
\* transient failure (a timeout, a 5xx answer) the call yields None; a
\* request answered with a 4xx status is not sent again and the call yields
\* None.
C31_TransientRetriedPermanentNot ==
    /\ [](sends <= 1 + 3)
    /\ [][(/\ RequestIsSent
           /\ sends' = 1 + 3
           /\ status_code' = 0 \/ status_code' >= 500)
            => fpc' = "done" /\ returned' = "None"]_vars
    /\ [][(RequestIsSent /\ status_code' \in 400..499)
            => fpc' = "done" /\ returned' = "None"]_vars

\* The row has what the periodic cleanup writes.
MarkedFailedByCleanup ==
    /\ app = "litapp"
    /\ job.status = "failed"
    /\ job.error_message = TIMED_OUT
    /\ job.completed_at # NULL

\* C33: cleanup_stale_jobs_task writes to a job only when it is processing and
\* was last updated more than two hours ago, and leaves it failed with an
\* error message and a completion time; a job it has marked failed is not
\* changed afterwards by the tasks of the job.
C33_CleanupOnlyStaleAndFinal ==
    /\ [][cleanup_stale_jobs_task =>
             /\ job.status = "processing" /\ updated_at = "old"
             /\ MarkedFailedByCleanup']_vars
    /\ [][(MarkedFailedByCleanup /\ cancelPc' = cancelPc) => job' = job]_vars

\* Call c of download_pdf returns this value in this step.
CallerReturns(c, value) ==
    /\ app = "litapp"
    /\ callers[c].returned = "nothing"
    /\ callers'[c].returned = value

\* C38: when a call of download_pdf returns the path, the file at the path is
\* the whole body of one fetch, also with another call for the same URL under
\* way; when a call returns None after a failed fetch, no file is at the path.
C38_ReturnedFileIsComplete ==
    /\ [][\A c \in Callers :
             CallerReturns(c, "cache_path") =>
                 cached_pdf'.exists /\ cached_pdf'.size = BodyBytes]_vars
    /\ [][\A c \in Callers :
             CallerReturns(c, "None") => ~cached_pdf'.exists]_vars

\* An invocation of generate_review_task is under way.
Invoked == app = "literature" /\ wpc # "idle"

\* No invocation is under way and none is to come.
NoFurtherInvocation == wpc = "idle" /\ queue = 0

\* C34: under fair scheduling every invocation of generate_review_task ends
\* with the row finished, failed or canceled, and from some moment on no
\* further invocation occurs and the row is not running.
C34_InvocationsEndTerminal ==
    /\ Invoked ~> (wpc = "idle"
                    /\ task.status \in {"finished", "failed", "canceled"})
    /\ (app = "literature") =>
          <>[](NoFurtherInvocation /\ task.status # "running")

\* llm_generation_task is queued for the job, or runs.
LlmQueued == app = "litapp" /\ (lqueue > 0 \/ lpc # "idle")

\* C35: under fair scheduling a job for which llm_generation_task was queued
\* ends completed or failed, with no invocation left, whatever step of the
\* task fails.
C35_QueuedJobEndsTerminal ==
    LlmQueued ~> (/\ lqueue = 0 /\ lpc = "idle"
                  /\ job.status \in {"completed", "failed"})

====
